---------------------------- MODULE Spec2Model ----------------------------
(***************************************************************************)
(* LuxCore Material Toolkit: the role classifiers (file name -> texture    *)
(* type) and the node-graph synthesis of its four operators                *)
(*   luxcore_disney_setup.py      LUXCORE_OT_select_pbr_textures           *)
(*   luxcore_texture_connect.py   LUXCORE_OT_connect_existing_textures     *)
(*   luxcore_texture_extractor.py LUXCORE_EXTRACT_OT_extract_textures      *)
(*   luxcore_connect_selected.py  LUXCORE_OT_connect_selected_texture      *)
(* Names are TLA+ strings; Len, SubSeq and \o act on them character by     *)
(* character, so the regular expressions of the source are evaluated on    *)
(* the characters of the name.                                             *)
(***************************************************************************)
EXTENDS Integers, Sequences, FiniteSets, TLC

VARIABLES
    cpc,        \* classifier run: "input" before the classifier ran, "done" after
    centry,     \* which classifier runs: "disney", "connect", "extractor"
    cname,      \* the file name (Disney) or image name given to the classifier
    cnode,      \* the name of the texture node (connect, extractor)
    cforce,     \* force_type of the Disney setup operator
    cresult,    \* what the classifier returned: [type, via]
    nodes,      \* node_tree.nodes: the sequence of the nodes of the material tree
    links,      \* node_tree.links: the set of the edges [from, out, to, inp]
    assets,     \* the texture files of the scene, as selected / as found
    rejected,   \* the node types for which node_tree.nodes.new of the host raises
    resolve,    \* the value transfer looking up one input of a target node
    walk,       \* traverse_to_material_output on the tree of the Principled material
    run,        \* the locals of the operator run in progress, or of the last run
    ops         \* the number of operator runs started

cvars == <<cpc, centry, cname, cnode, cforce, cresult>>

gvars == <<nodes, links, assets, rejected, resolve, walk, run, ops>>

vars == <<cpc, centry, cname, cnode, cforce, cresult, nodes, links, assets, rejected,
          resolve, walk, run, ops>>

\* no input is being looked up
\* no traversal in progress
NoWalk ==
    [pc |-> "off", types |-> <<>>, links |-> {}, node |-> 0, stack |-> <<>>, visited |-> {},
     visits |-> <<>>, result |-> FALSE]

NoResolve == [pc |-> "off", inputs |-> <<>>, name |-> "", socket |-> ""]

-----------------------------------------------------------------------------
(* Characters and strings                                                  *)

Char(s, i) == SubSeq(s, i, i)

UpperLetters == "ABCDEFGHIJKLMNOPQRSTUVWXYZ"

LowerLetters == "abcdefghijklmnopqrstuvwxyz"

Digits == "0123456789"

\* str.lower() on one character
LowerChar(c) ==
    IF \E i \in 1..Len(UpperLetters) : Char(UpperLetters, i) = c
    THEN Char(LowerLetters, CHOOSE i \in 1..Len(UpperLetters) : Char(UpperLetters, i) = c)
    ELSE c

RECURSIVE Lower(_)
\* str.lower()
Lower(s) ==
    IF s = "" THEN ""
    ELSE LowerChar(Char(s, 1)) \o Lower(SubSeq(s, 2, Len(s)))

RECURSIVE ReplaceDot(_)
\* str.replace('.', '_')
ReplaceDot(s) ==
    IF s = "" THEN ""
    ELSE (IF Char(s, 1) = "." THEN "_" ELSE Char(s, 1)) \o ReplaceDot(SubSeq(s, 2, Len(s)))

\* keyword in text
Contains(text, kw) ==
    \E i \in 1..(Len(text) - Len(kw) + 1) : SubSeq(text, i, i + Len(kw) - 1) = kw

\* positions of the dots of s
DotPositions(s) == {i \in 1..Len(s) : Char(s, i) = "."}

\* os.path.splitext(s)[0]: the name up to its last dot, when a character
\* other than a dot stands before that dot; the whole name otherwise
SplitExtRoot(s) ==
    IF DotPositions(s) = {} THEN s
    ELSE LET d == CHOOSE i \in DotPositions(s) : \A j \in DotPositions(s) : j <= i
         IN  IF \E j \in 1..(d - 1) : Char(s, j) # "." THEN SubSeq(s, 1, d - 1) ELSE s

\* re.split(r'[_\-\.]', s)[-1]: what follows the last separator of s
LastSegment(s) ==
    LET seps == {i \in 1..Len(s) : Char(s, i) \in {"_", "-", "."}}
    IN  IF seps = {} THEN s
        ELSE LET p == CHOOSE i \in seps : \A j \in seps : j <= i
             IN  SubSeq(s, p + 1, Len(s))

-----------------------------------------------------------------------------
(* The keyword tables.  A Python dict keeps insertion order, so each table *)
(* is the sequence of its entries in the order the source lists them.      *)
(* socket "" stands for 'socket': None.                                    *)

Entry(t, kws, sock, prio) == [type |-> t, keywords |-> kws, socket |-> sock, priority |-> prio]

\* texture_mapping of the Disney setup operator
disney_texture_mapping == <<
    Entry("orm", <<"orm", "arm", "mro", "metallicroughness", "roughnessmetallic",
                   "occlusionroughnessmetallic", "ambientroughnessmetallic">>, "", 100),
    Entry("ors", <<"ors", "occlusionroughnessspecular", "roughnessspecularocclusion",
                   "specularroughnessocclusion", "ambientroughnessspecular",
                   "occlusionroughnessgloss", "roughnessglossocclusion">>, "", 90),
    Entry("color", <<"color", "diff", "diffuse", "albedo", "basecolor", "col", "base",
                     "basecol", "diffuse", "dif", "dff", "clr", "colour">>, "Base Color", 80),
    Entry("emission", <<"emission", "emit", "emissive", "emiss", "glow", "light">>, "Emission", 75),
    Entry("normal", <<"normal", "norm", "nrm", "nor", "normalmap", "normal_map",
                      "normalgl", "normal_dx", "normaldx", "nrml", "normals",
                      "normal_gl", "norm_gl">>, "Bump", 70),
    Entry("bump", <<"bump", "bmp", "bump_map", "bumpmap">>, "Bump", 65),
    Entry("metallic", <<"metal", "metallic", "metallness", "metalness", "mtl", "met",
                        "metalic">>, "Metallic", 60),
    Entry("roughness", <<"rough", "roughness", "rugosità", "roughness", "gloss", "glossiness",
                         "rgh", "roughness", "rghns", "rough", "rug">>, "Roughness", 50),
    Entry("specular", <<"spec", "specular", "specularity", "spc", "specular",
                        "specularlevel">>, "Specular", 40),
    Entry("height", <<"height", "disp", "displacement", "heightmap", "height_map",
                      "hgt", "displace", "depth", "depthmap">>, "Height", 30),
    Entry("opacity", <<"opacity", "alpha", "transparency", "transparent", "opac",
                       "alph", "trans", "op", "mask">>, "Opacity", 20),
    Entry("ao", <<"ao", "ambientocclusion", "occlusion", "ambient", "ambient_occlusion",
                  "occl", "ambocc", "ambientoccl", "occlusion">>, "", 10) >>

\* texture_mapping of connect-existing-textures (color is listed before emission)
connect_texture_mapping == <<
    Entry("orm", <<"orm", "arm", "mro", "metallicroughness", "roughnessmetallic",
                   "occlusionroughnessmetallic", "ambientroughnessmetallic">>, "", 12),
    Entry("ors", <<"ors", "occlusionroughnessspecular", "roughnessspecularocclusion",
                   "specularroughnessocclusion", "ambientroughnessspecular",
                   "occlusionroughnessgloss", "roughnessglossocclusion">>, "", 11),
    Entry("color", <<"color", "diff", "diffuse", "albedo", "basecolor", "col", "base">>,
          "Base Color", 9),
    Entry("emission", <<"emission", "emit", "emissive", "emiss", "glow", "light">>, "Emission", 10),
    Entry("normal", <<"normal", "norm", "nrm", "nor", "normalmap", "normal_map", "normalgl",
                      "normaldx">>, "Bump", 8),
    Entry("bump", <<"bump", "bmp", "bump_map", "bumpmap">>, "Bump", 7),
    Entry("metallic", <<"metal", "metallic", "metalness", "mtl", "met">>, "Metallic", 6),
    Entry("roughness", <<"rough", "roughness", "rgh", "rug">>, "Roughness", 5),
    Entry("specular", <<"spec", "specular", "specularity", "spc">>, "Specular", 4),
    Entry("height", <<"height", "disp", "displacement", "heightmap">>, "Height", 3),
    Entry("opacity", <<"opacity", "alpha", "transparency", "transparent", "mask">>, "Opacity", 2),
    Entry("ao", <<"ao", "ambientocclusion", "occlusion", "ambient">>, "", 1) >>

\* texture_mapping of the extractor's connect_textures_to_material
extractor_texture_mapping == <<
    Entry("orm", <<"orm", "arm", "mro", "metallicroughness", "roughnessmetallic",
                   "occlusionroughnessmetallic", "ambientroughnessmetallic">>, "", 12),
    Entry("ors", <<"ors", "occlusionroughnessspecular", "roughnessspecularocclusion",
                   "specularroughnessocclusion", "ambientroughnessspecular",
                   "occlusionroughnessgloss", "roughnessglossocclusion">>, "", 11),
    Entry("emission", <<"emission", "emit", "emissive", "emiss", "glow", "light">>, "Emission", 10),
    Entry("color", <<"color", "diff", "diffuse", "albedo", "basecolor", "col", "base",
                     "basecol", "diffuse", "dif", "dff", "clr", "colour">>, "Base Color", 9),
    Entry("normal", <<"normal", "norm", "nrm", "nor", "normalmap", "normal_map",
                      "normalgl", "normal_dx", "nrml", "normals",
                      "normal_gl", "normalgl", "norm_gl">>, "Bump", 8),
    Entry("bump", <<"bump", "bmp", "bump_map", "bumpmap">>, "Bump", 7),
    Entry("metallic", <<"metal", "metallic", "metallness", "metalness", "mtl", "met",
                        "metalic">>, "Metallic", 6),
    Entry("roughness", <<"rough", "roughness", "rugosità", "roughness", "gloss", "glossiness",
                         "rgh", "roughness", "rghns", "rough", "rug">>, "Roughness", 5),
    Entry("specular", <<"spec", "specular", "specularity", "spc", "specular",
                        "specularlevel">>, "Specular", 4),
    Entry("height", <<"height", "disp", "displacement", "heightmap", "height_map",
                      "hgt", "displace", "depth", "depthmap">>, "Height", 3),
    Entry("opacity", <<"opacity", "alpha", "transparency", "transparent", "opac",
                       "alph", "trans", "op", "mask">>, "Opacity", 2),
    Entry("ao", <<"ao", "ambientocclusion", "occlusion", "ambient", "ambient_occlusion",
                  "occl", "ambocc", "ambientoccl", "occlusion", "ao_", "_ao", "ao_map">>, "", 1) >>

-----------------------------------------------------------------------------
(* The three classifiers.  Each returns [type, via]: the texture type and  *)
(* the rule that chose it ("boundary", "substring", "forced", "suffix"),   *)
(* or type "none" when no rule applies.                                    *)

\* [a-zA-Z0-9] of the regular expressions
AlnumChars ==
    {Char(LowerLetters, i) : i \in 1..Len(LowerLetters)}
        \cup {Char(UpperLetters, i) : i \in 1..Len(UpperLetters)}
        \cup {Char(Digits, i) : i \in 1..Len(Digits)}

Min(S) == CHOOSE x \in S : \A y \in S : x <= y

NoMatch == [type |-> "none", via |-> "none"]

\* re.search(r'(^|[_-])' + re.escape(keyword) + r'($|[_-])', text)
DisneyBoundaryMatch(keyword, text) ==
    \E i \in 1..(Len(text) - Len(keyword) + 1) :
        /\ SubSeq(text, i, i + Len(keyword) - 1) = keyword
        /\ (i = 1 \/ Char(text, i - 1) \in {"_", "-"})
        /\ (i + Len(keyword) - 1 = Len(text) \/ Char(text, i + Len(keyword)) \in {"_", "-"})

\* the pattern without its ^ and $ alternatives: a keyword at the start or
\* at the end of the text no longer matches
WordBoundaryMatchNoAnchors(keyword, text) ==
    \E i \in 2..(Len(text) - Len(keyword)) :
        /\ SubSeq(text, i, i + Len(keyword) - 1) = keyword
        /\ Char(text, i - 1) \notin AlnumChars
        /\ Char(text, i + Len(keyword)) \notin AlnumChars

\* re.search(r'(^|[^a-zA-Z0-9])' + re.escape(keyword) + r'($|[^a-zA-Z0-9])', text,
\* re.IGNORECASE); text and keywords are lower case already
WordBoundaryMatch(keyword, text) ==
    \E i \in 1..(Len(text) - Len(keyword) + 1) :
        /\ SubSeq(text, i, i + Len(keyword) - 1) = keyword
        /\ (i = 1 \/ Char(text, i - 1) \notin AlnumChars)
        /\ (i + Len(keyword) - 1 = Len(text) \/ Char(text, i + Len(keyword)) \notin AlnumChars)

\* the entries of the Disney table with a keyword matching by boundary
DisneyBoundaryEntries(text) ==
    {e \in 1..Len(disney_texture_mapping) :
        \E k \in 1..Len(disney_texture_mapping[e].keywords) :
            DisneyBoundaryMatch(disney_texture_mapping[e].keywords[k], text)}

\* the entries of the Disney table with a keyword contained in the text
DisneySubstringEntries(text) ==
    {e \in 1..Len(disney_texture_mapping) :
        \E k \in 1..Len(disney_texture_mapping[e].keywords) :
            Contains(text, disney_texture_mapping[e].keywords[k])}

force_map ==
    [COLOR |-> "color", NORMAL |-> "normal", ROUGHNESS |-> "roughness",
     METALLIC |-> "metallic", SPECULAR |-> "specular", DISPLACEMENT |-> "height",
     AO |-> "ao", ORM |-> "orm", ORS |-> "ors"]

\* the items of the force_type property
ForceTypes ==
    {"AUTO", "COLOR", "NORMAL", "ROUGHNESS", "METALLIC", "SPECULAR", "DISPLACEMENT",
     "AO", "ORM", "ORS"}

\* Disney setup, execute, the two passes over the table: the first entry in
\* table order with a boundary match; else the first entry in table order
\* with a keyword contained in the name
DisneyMatch(filename) ==
    LET filename_lower == Lower(filename)
        filename_no_ext == SplitExtRoot(filename_lower)
        b == DisneyBoundaryEntries(filename_no_ext)
        s == DisneySubstringEntries(filename_no_ext)
    IN  IF b # {} THEN [type |-> disney_texture_mapping[Min(b)].type, via |-> "boundary"]
        ELSE IF s # {} THEN [type |-> disney_texture_mapping[Min(s)].type, via |-> "substring"]
        ELSE NoMatch

\* the forced type overriding what the passes found
DisneyForceAlways(match, force_type) ==
    IF force_type # "AUTO" /\ force_type \in DOMAIN force_map
    THEN [type |-> force_map[force_type], via |-> "forced"]
    ELSE match

\* Disney setup, execute: the forced type, used when the passes found none
DisneyForce(match, force_type) ==
    IF match.type = "none" /\ force_type # "AUTO" /\ force_type \in DOMAIN force_map
    THEN [type |-> force_map[force_type], via |-> "forced"]
    ELSE match

\* Disney setup, execute: the type of one selected file
DisneyClassify(filename, force_type) == DisneyForce(DisneyMatch(filename), force_type)

\* does an entry have a keyword matching the search text at a word boundary
EntryMatches(entry, search_text) ==
    \E k \in 1..Len(entry.keywords) : WordBoundaryMatch(entry.keywords[k], search_text)

RECURSIVE ConnectScanFirstWins(_, _, _, _)
\* the loop keeping the first entry that matches, whatever its priority
ConnectScanFirstWins(search_text, e, best_match, best_priority) ==
    IF e > Len(connect_texture_mapping) THEN best_match
    ELSE IF /\ EntryMatches(connect_texture_mapping[e], search_text)
            /\ best_priority < 0
         THEN ConnectScanFirstWins(search_text, e + 1,
                                   [type |-> connect_texture_mapping[e].type, via |-> "boundary"],
                                   connect_texture_mapping[e].priority)
         ELSE ConnectScanFirstWins(search_text, e + 1, best_match, best_priority)

RECURSIVE ConnectScan(_, _, _, _)
\* connect-existing-textures: the loop over the table entries from entry e
\* on, keeping an entry when its priority is greater than the best so far
ConnectScan(search_text, e, best_match, best_priority) ==
    IF e > Len(connect_texture_mapping) THEN best_match
    ELSE IF /\ EntryMatches(connect_texture_mapping[e], search_text)
            /\ connect_texture_mapping[e].priority > best_priority
         THEN ConnectScan(search_text, e + 1,
                          [type |-> connect_texture_mapping[e].type, via |-> "boundary"],
                          connect_texture_mapping[e].priority)
         ELSE ConnectScan(search_text, e + 1, best_match, best_priority)

\* connect-existing-textures: the type of one texture node
ConnectClassify(node_name, image_name) ==
    LET search_text == Lower(node_name) \o " " \o Lower(image_name)
    IN  ConnectScan(search_text, 1, NoMatch, -1)

\* the first keyword of the list (its index) that matches the search text
\* at a word boundary; 0 when none does
FirstMatchingKeyword(keywords, search_text) ==
    LET m == {k \in 1..Len(keywords) : WordBoundaryMatch(keywords[k], search_text)}
    IN  IF m = {} THEN 0 ELSE Min(m)

RECURSIVE ExtractorScan(_, _, _, _)
\* extractor: the loop over the table entries from entry e on.  Only the
\* first keyword of an entry that matches the search text is examined (the
\* loop over the keywords breaks after it); it is a suffix match when it
\* equals the suffix.
ExtractorScan(search_text, suffix_text, e, best) ==
    IF e > Len(extractor_texture_mapping) THEN best
    ELSE LET entry == extractor_texture_mapping[e]
             k == FirstMatchingKeyword(entry.keywords, search_text)
             is_suffix_match == k # 0 /\ entry.keywords[k] = suffix_text
             current_priority == entry.priority
             taken == [type |-> entry.type, priority |-> current_priority,
                       is_suffix |-> is_suffix_match]
         IN  IF k = 0 THEN ExtractorScan(search_text, suffix_text, e + 1, best)
             ELSE IF is_suffix_match /\ ~best.is_suffix
                  THEN ExtractorScan(search_text, suffix_text, e + 1, taken)
             ELSE IF is_suffix_match = best.is_suffix /\ current_priority > best.priority
                  THEN ExtractorScan(search_text, suffix_text, e + 1, taken)
             ELSE ExtractorScan(search_text, suffix_text, e + 1, best)

\* extractor: the type of one texture node
ExtractorClassify(node_name, image_name) ==
    LET search_text == Lower(node_name) \o " " \o Lower(image_name)
        basename_no_ext == IF image_name # "" THEN SplitExtRoot(Lower(image_name))
                           ELSE SplitExtRoot(Lower(node_name))
        suffix_text == LastSegment(basename_no_ext)
        best == ExtractorScan(search_text, suffix_text, 1,
                              [type |-> "none", priority |-> -1, is_suffix |-> FALSE])
    IN  IF best.type = "none" THEN NoMatch
        ELSE [type |-> best.type, via |-> IF best.is_suffix THEN "suffix" ELSE "boundary"]

\* extractor, create_luxcore_texture_nodes: the name given to the node made
\* for a texture
ExtractorNodeName(texture_name) == "LuxCore_" \o ReplaceDot(texture_name)


-----------------------------------------------------------------------------
(* The node tree.  A node is [kind, name, label, image, normalmap]: kind   *)
(* is its bl_idname, image the name of the image it shows ("" for none),   *)
(* normalmap the normal-map checkbox of an image node.  A node is known by *)
(* its position in node_tree.nodes; 0 stands for None.  A link is          *)
(* [from, out, to, inp]: from output socket out of node from to input      *)
(* socket inp of node to.  The sockets are those of the BlendLuxCore node  *)
(* classes the operators ask the host to create.                            *)

TextureKinds == {"LuxCoreNodeTexImagemap", "LuxCoreNodeTexImage", "ShaderNodeTexImage"}

DisneyKinds == {"LuxCoreNodeMatDisney", "LuxCoreNodeMatDisney2", "luxcore_material_disney"}

\* node.inputs of a node of the kind, in socket order
NodeInputs(kind) ==
    CASE kind = "LuxCoreNodeMatDisney" ->
             <<"Base Color", "Metallic", "Specular", "Roughness", "Opacity", "Bump", "Emission">>
      [] kind = "LuxCoreNodeMatOutput" -> <<"Material", "Shape">>
      [] kind = "LuxCoreNodeTexImagemap" -> <<"2D Mapping">>
      [] kind = "LuxCoreNodeTexSplitFloat3" -> <<"Color">>
      [] kind = "LuxCoreNodeTexMath" -> <<"Value 1", "Value 2">>
      [] kind = "LuxCoreNodeTexBump" -> <<"Value", "Bump Height">>
      [] kind = "LuxCoreNodeMatEmission" -> <<"Color">>
      [] kind = "LuxCoreNodeShapeHeightDisplacement" -> <<"Shape", "Height">>
      [] kind = "LuxCoreNodeShapeSubdiv" -> <<"Shape">>
      [] OTHER -> <<>>

\* node.outputs of a node of the kind, in socket order
NodeOutputs(kind) ==
    CASE kind = "LuxCoreNodeMatDisney" -> <<"Material">>
      [] kind = "LuxCoreNodeTexImagemap" -> <<"Color", "Alpha">>
      [] kind = "LuxCoreNodeTexSplitFloat3" -> <<"R", "G", "B">>
      [] kind = "LuxCoreNodeTexMath" -> <<"Value">>
      [] kind = "LuxCoreNodeTexBump" -> <<"Bump">>
      [] kind = "LuxCoreNodeMatEmission" -> <<"Emission">>
      [] kind = "LuxCoreNodeShapeHeightDisplacement" -> <<"Shape">>
      [] kind = "LuxCoreNodeShapeSubdiv" -> <<"Shape">>
      [] kind = "LuxCoreNodeTexMapping2D" -> <<"2D Mapping">>
      [] kind = "LuxCoreNodeTexConstantFloat3" -> <<"Color">>
      [] OTHER -> <<>>

\* node.name of a node just created: the label of its class.  The host adds
\* ".001", ".002" to keep names unique; no keyword matches such a suffix.
DefaultName(kind) ==
    CASE kind = "LuxCoreNodeMatDisney" -> "Disney Material"
      [] kind = "LuxCoreNodeMatOutput" -> "Material Output"
      [] kind = "LuxCoreNodeTexImagemap" -> "Imagemap"
      [] kind = "LuxCoreNodeTexSplitFloat3" -> "Split RGB"
      [] kind = "LuxCoreNodeTexMath" -> "Math"
      [] kind = "LuxCoreNodeTexBump" -> "Bump"
      [] kind = "LuxCoreNodeMatEmission" -> "Emission"
      [] kind = "LuxCoreNodeShapeHeightDisplacement" -> "Height Displacement"
      [] kind = "LuxCoreNodeShapeSubdiv" -> "Subdivision"
      [] kind = "LuxCoreNodeTexMapping2D" -> "2D Mapping"
      [] OTHER -> "Node"

Node(kind, name, label, image) ==
    [kind |-> kind, name |-> name, label |-> label, image |-> image, normalmap |-> FALSE]

Link(from, out, to, inp) == [from |-> from, out |-> out, to |-> to, inp |-> inp]

\* name in collection, for a collection of sockets
HasSocket(sockets, name) == \E i \in 1..Len(sockets) : sockets[i] = name

\* the first name of the candidates that is a socket of the collection; ""
\* when none is
FirstSocket(candidates, sockets) ==
    LET found == {i \in 1..Len(candidates) : HasSocket(sockets, candidates[i])}
    IN  IF found = {} THEN "" ELSE candidates[Min(found)]

\* the first socket of the collection whose lower-cased name contains one
\* of the words; "" when none does
FirstSocketContaining(words, sockets) ==
    LET found == {i \in 1..Len(sockets) : \E w \in words : Contains(Lower(sockets[i]), w)}
    IN  IF found = {} THEN "" ELSE sockets[Min(found)]

\* the output named color, image or value, else the first output
ColorOutput(kind) ==
    LET outs == NodeOutputs(kind)
        found == {i \in 1..Len(outs) : Lower(outs[i]) \in {"color", "image", "value"}}
    IN  IF found # {} THEN outs[Min(found)]
        ELSE IF Len(outs) > 0 THEN outs[1] ELSE ""

\* the Bump socket of the material node: by name, else by a name that
\* contains bump or normal
BumpSocket(kind) ==
    LET by_name == FirstSocket(<<"Bump", "bump", "Normal", "normal">>, NodeInputs(kind))
    IN  IF by_name # "" THEN by_name
        ELSE FirstSocketContaining({"bump", "normal"}, NodeInputs(kind))

\* the Emission socket of the material node
EmissionSocket(kind) ==
    IF HasSocket(NodeInputs(kind), "Emission") THEN "Emission"
    ELSE FirstSocketContaining({"emission", "emit"}, NodeInputs(kind))

(* The operations on the tree.  s is any record with the fields nodes and  *)
(* links: the tree together with the locals of the run working on it.      *)

\* node_tree.nodes.new(type): the new node is the last of s.nodes
NodesNew(s, kind) == [s EXCEPT !.nodes = Append(@, Node(kind, DefaultName(kind), "", ""))]

\* a link created beside the links that already end at the input socket
LinksNewKeepingOld(s, from, out, to, inp) ==
    [s EXCEPT !.links = @ \cup {Link(from, out, to, inp)}]

\* node_tree.links.new(output, input): an input socket takes one link, the
\* host drops the link that ended there
LinksNew(s, from, out, to, inp) ==
    [s EXCEPT !.links = {l \in @ : ~(l.to = to /\ l.inp = inp)} \cup {Link(from, out, to, inp)}]

\* a link created when the code finds the sockets it looks for (found)
LinksNewIf(found, s, from, out, to, inp) ==
    IF found THEN LinksNew(s, from, out, to, inp) ELSE s

\* links.remove that also takes the source node of the link out of the
\* tree: its place in the sequence of the nodes is left empty
LinksRemoveWithSource(s, link) ==
    [s EXCEPT !.links = @ \ {link}, !.nodes[link.from] = Node("", "", "", "")]

\* node_tree.links.remove(link)
LinksRemove(s, link) == [s EXCEPT !.links = @ \ {link}]

\* the loop that removes the first link found at an input socket, if any
RemoveLinkAt(s, to, inp) ==
    LET existing == {l \in s.links : l.to = to /\ l.inp = inp}
    IN  IF existing = {} THEN s ELSE LinksRemove(s, CHOOSE l \in existing : TRUE)

\* socket.is_linked of an input socket
IsLinked(s, to, inp) == \E l \in s.links : l.to = to /\ l.inp = inp

\* node.label or node.name
LabelOrName(node) == IF node.label # "" THEN node.label ELSE node.name

SetLabel(s, n, label) == [s EXCEPT !.nodes[n].label = label]

\* node.label += text
AddLabel(s, n, text) == [s EXCEPT !.nodes[n].label = @ \o text]

\* node.label = (node.label or node.name) + text
AddLabelOrName(s, n, text) == [s EXCEPT !.nodes[n].label = LabelOrName(s.nodes[n]) \o text]

\* node.label = prefix + (node.label or node.name)
PrefixLabelOrName(s, n, prefix) ==
    [s EXCEPT !.nodes[n].label = prefix \o LabelOrName(s.nodes[n])]

\* the label changes made beside a link that is created (done)
AddLabelIf(done, s, n, text) == IF done THEN AddLabel(s, n, text) ELSE s

PrefixLabelOrNameIf(done, s, n, prefix) == IF done THEN PrefixLabelOrName(s, n, prefix) ELSE s

\* nodes.new(type) followed by node.label = label
NodesNewLabelled(s, kind, label) == SetLabel(NodesNew(s, kind), Len(s.nodes) + 1, label)

\* the first node of the tree of one of the kinds; 0 when there is none
FirstNodeOf(s, kinds) ==
    LET found == {n \in 1..Len(s.nodes) : s.nodes[n].kind \in kinds}
    IN  IF found = {} THEN 0 ELSE Min(found)

RECURSIVE Upper(_)
\* str.upper() on the letters a to z
Upper(s) ==
    IF s = "" THEN ""
    ELSE LET c == Char(s, 1)
             up == IF \E i \in 1..26 : Char(LowerLetters, i) = c
                   THEN Char(UpperLetters, CHOOSE i \in 1..26 : Char(LowerLetters, i) = c)
                   ELSE c
         IN  up \o Upper(SubSeq(s, 2, Len(s)))

-----------------------------------------------------------------------------
(* The texture files and the locals of an operator run                     *)

MaxAssets == 3

\* the texture files of the scene, one for each texture type and one that
\* no keyword matches, in directory order
AssetPool ==
    <<"wall.png", "wall_ao.png", "wall_bump.png", "wall_color.png", "wall_emission.png",
      "wall_height.png", "wall_metallic.png", "wall_normal.png", "wall_opacity.png",
      "wall_orm.png", "wall_ors.png", "wall_roughness.png", "wall_specular.png">>

\* texture files handed over in an order of the user's choice: those of a
\* material with a base colour, an ORM and a normal map, the files an ORM
\* texture covers, and a normal map of a material named wall_base
OrderPool ==
    {"wall_basecolor.jpg", "wall_orm.png", "wall_normal.png", "wall_roughness.png",
     "wall_metallic.png", "wall_ao.png", "wall_base_normal.png"}

AssetNames == {AssetPool[i] : i \in 1..Len(AssetPool)} \cup OrderPool

RECURSIVE AssetListsFrom(_, _)
\* the lists of at most n files taken in directory order from file k on
AssetListsFrom(k, n) ==
    IF n = 0 \/ k > Len(AssetPool) THEN {<<>>}
    ELSE AssetListsFrom(k + 1, n)
         \cup {<<AssetPool[k]>> \o rest : rest \in AssetListsFrom(k + 1, n - 1)}

\* self.files of the Disney setup, the image textures of the Principled
\* material for the extractor
AssetLists == AssetListsFrom(1, MaxAssets)

\* the name of an existing texture node given to connect-existing-textures:
\* the default name of an image map node, or the name the extractor gave
ConnectNodeNames(image_name) == {"Imagemap", ExtractorNodeName(image_name)}

\* the three classifiers on the files of the scene
DisneyMatches == [a \in AssetNames |-> DisneyMatch(a)]

ConnectTypes ==
    [p \in {<<n, a>> : a \in AssetNames, n \in UNION {ConnectNodeNames(b) : b \in AssetNames}}
        |-> IF p[1] \in ConnectNodeNames(p[2]) THEN ConnectClassify(p[1], p[2]).type ELSE "none"]

ExtractorTypes == [a \in AssetNames |-> ExtractorClassify(ExtractorNodeName(a), a).type]

\* texture_mapping[tex_type]
EntryOf(table, tex_type) ==
    table[CHOOSE e \in 1..Len(table) : table[e].type = tex_type]

\* one element of textures_to_load / texture_info_list: the file or image
\* name, its type, the socket and priority of the table entry, the node
Texture(name, tex_type, table, node) ==
    [name |-> name, type |-> tex_type, socket |-> EntryOf(table, tex_type).socket,
     priority |-> EntryOf(table, tex_type).priority, node |-> node]

\* the entry the extractor makes for a texture that no keyword matches
Unassigned(name, node) ==
    [name |-> name, type |-> "unassigned", socket |-> "", priority |-> 0, node |-> node]

RECURSIVE SortByPriority(_)
\* list.sort(key = priority, reverse = True): a stable sort, elements of
\* the same priority keep their order
SortByPriority(list) ==
    IF list = <<>> THEN <<>>
    ELSE LET top == CHOOSE p \in {list[i].priority : i \in 1..Len(list)} :
                        \A i \in 1..Len(list) : list[i].priority <= p
             first == Min({i \in 1..Len(list) : list[i].priority = top})
             rest == SubSeq(list, 1, first - 1) \o SubSeq(list, first + 1, Len(list))
         IN  <<list[first]>> \o SortByPriority(rest)

\* the locals of a run.  op is the operator, pc the place the run has
\* reached ("idle" before any run, "done" after the run returned), result
\* what the operator returned.  textures is the list the run works on, i the
\* position of the next texture in it, count the connected count, success
\* what the last helper returned.  The fields nodes and links hold the tree
\* while an operation works on it.
NoRun ==
    [op |-> "none", pc |-> "idle", result |-> "", auto_connect |-> FALSE,
     transfer |-> FALSE, textures |-> <<>>, i |-> 0, covered_types |-> {}, count |-> 0,
     material_node |-> 0, material_output |-> 0, mapping_node |-> 0,
     color_node |-> 0, ao_node |-> 0, orm_node |-> 0, ors_node |-> 0,
     orm_ao_channel |-> 0, ors_ao_channel |-> 0, normal_nodes |-> {},
     unrecognised |-> {}, selected |-> 0, texture_type |-> "", first |-> 0,
     success |-> FALSE,
     nodes |-> <<>>, links |-> {}]

\* the locals of a run that starts on the tree
Begin(op) ==
    [NoRun EXCEPT !.op = op, !.first = Len(nodes) + 1, !.nodes = nodes, !.links = links]

\* the locals of the run in progress, with the tree
Frame == [run EXCEPT !.nodes = nodes, !.links = links]

\* the tree and the locals after a step; what a helper returned does not
\* outlive the step
Commit(s) ==
    /\ nodes' = s.nodes
    /\ links' = s.links
    /\ run' = [s EXCEPT !.nodes = <<>>, !.links = {}, !.success = FALSE]

\* the run returns
Return(s, result) == [s EXCEPT !.pc = "done", !.result = result]

\* a helper returns
Returns(s, success) == [s EXCEPT !.success = success]

\* if helper(...): connected_count += 2
CountedTwice(s) == [s EXCEPT !.count = IF s.success THEN @ + 2 ELSE @]

\* if helper(...): connected_count += 1
Counted(s) == [s EXCEPT !.count = IF s.success THEN @ + 1 ELSE @]

\* if helper(...): node.label += text
AddLabelIfSuccess(s, n, text) == IF s.success THEN AddLabel(s, n, text) ELSE s

\* if helper(...): node.label = prefix + (node.label or node.name) and
\* connected_count += 1
PrefixedAndCounted(s, n, prefix) ==
    IF s.success THEN Counted(PrefixLabelOrName(s, n, prefix)) ELSE s

-----------------------------------------------------------------------------
(* The extractor, LUXCORE_EXTRACT_OT_extract_textures.  The tree is the    *)
(* LuxCore tree of the target material.  A helper that returns a value     *)
(* leaves it in the field success.                                         *)

\* connect_mapping_to_texture, called when mapping_node and create_uv_node
ExtConnectMapping(s, tex_node) ==
    IF s.mapping_node = 0 THEN s
    ELSE LET ins == NodeInputs(s.nodes[tex_node].kind)
             outs == NodeOutputs(s.nodes[s.mapping_node].kind)
             free == {i \in 1..Len(ins) : /\ ~Contains(Lower(ins[i]), "color")
                                          /\ ~Contains(Lower(ins[i]), "value")}
             inp == IF free # {} THEN ins[Min(free)] ELSE ins[1]
         IN  IF Len(outs) > 0 /\ Len(ins) > 0
             THEN AddLabelOrName(LinksNew(s, s.mapping_node, outs[1], tex_node, inp),
                                 tex_node, " [UV]")
             ELSE s

\* setup_combined_texture with the channels taken one place early: R to
\* Roughness, G to Metallic or Specular
SetupCombinedTextureShifted(s, combined_node, tex_type) ==
    LET split_node == Len(s.nodes) + 1
        third == IF tex_type = "orm" THEN "Metallic" ELSE "Specular"
        s1 == LinksNew(NodesNewLabelled(s, "LuxCoreNodeTexSplitFloat3",
                                        "Split " \o Upper(tex_type)),
                       combined_node, "Color", split_node, "Color")
    IN  [LinksNew(LinksNew(s1, split_node, "R", s.material_node, "Roughness"),
                  split_node, "G", s.material_node, third)
            EXCEPT !.orm_ao_channel = IF tex_type = "orm" THEN split_node ELSE @,
                   !.ors_ao_channel = IF tex_type = "ors" THEN split_node ELSE @,
                   !.success = TRUE]

\* setup_combined_texture without its mapping step: the split node, the
\* channels G and B to the material node; the split node, whose channel R
\* is returned, is kept in orm_ao_channel / ors_ao_channel
SetupCombinedTexture(s, combined_node, tex_type) ==
    LET split_node == Len(s.nodes) + 1
        ins == NodeInputs(s.nodes[s.material_node].kind)
        outs == NodeOutputs("LuxCoreNodeTexSplitFloat3")
        roughness == IF HasSocket(ins, "Roughness") THEN "Roughness"
                     ELSE FirstSocketContaining({"rough"}, ins)
        third == IF tex_type = "orm"
                 THEN IF HasSocket(ins, "Metallic") THEN "Metallic"
                      ELSE FirstSocketContaining({"metal"}, ins)
                 ELSE IF HasSocket(ins, "Specular") THEN "Specular"
                      ELSE FirstSocketContaining({"spec"}, ins)
        s1 == NodesNewLabelled(s, "LuxCoreNodeTexSplitFloat3", "Split " \o Upper(tex_type))
        s2 == LinksNew(s1, combined_node, ColorOutput(s.nodes[combined_node].kind),
                       split_node, NodeInputs("LuxCoreNodeTexSplitFloat3")[1])
        s3 == LinksNewIf(roughness # "", s2, split_node, outs[2], s.material_node, roughness)
        s4 == LinksNewIf(third # "", s3, split_node, outs[3], s.material_node, third)
    IN  [PrefixLabelOrName(s4, combined_node, Upper(tex_type) \o ": ")
            EXCEPT !.orm_ao_channel = IF tex_type = "orm" THEN split_node ELSE @,
                   !.ors_ao_channel = IF tex_type = "ors" THEN split_node ELSE @,
                   !.success = TRUE]

\* extractor, setup_combined_texture
ExtSetupCombinedTexture(s, combined_node, tex_type) ==
    SetupCombinedTexture(ExtConnectMapping(s, combined_node), combined_node, tex_type)

\* multiply_ao_with_color with a Math node created: the AO channel is output
\* ao_out of node ao_from
MultiplyWithNode(s, color_node, ao_from, ao_out, ao_source_node) ==
    LET multiply_node == Len(s.nodes) + 1
        has_color == color_node # 0 /\ Len(NodeOutputs(s.nodes[color_node].kind)) > 0
        color_from == IF has_color THEN color_node ELSE multiply_node + 1
        color_out == IF has_color THEN ColorOutput(s.nodes[color_node].kind)
                     ELSE NodeOutputs("LuxCoreNodeTexConstantFloat3")[1]
        ins == NodeInputs("LuxCoreNodeTexMath")
        base_color == HasSocket(NodeInputs(s.nodes[s.material_node].kind), "Base Color")
        white(x) == IF has_color THEN x
                    ELSE NodesNewLabelled(x, "LuxCoreNodeTexConstantFloat3", "White")
        s1 == white(NodesNewLabelled(s, "LuxCoreNodeTexMath", "AO Multiply"))
        s2 == LinksNew(s1, color_from, color_out, multiply_node, ins[1])
        s3 == LinksNew(s2, ao_from, ao_out, multiply_node, ins[2])
        s4 == PrefixLabelOrNameIf(ao_source_node # 0, s3, ao_source_node, "AO: ")
        s5 == RemoveLinkAt(s4, s.material_node, "Base Color")
    IN  Returns(LinksNewIf(base_color, s5, multiply_node, ColorOutput("LuxCoreNodeTexMath"),
                           s.material_node, "Base Color"),
                base_color)

\* multiply_ao_with_color: False when the host has none of the Math node
\* types
MultiplyAoWithColor(s, color_node, ao_from, ao_out, ao_source_node) ==
    IF "LuxCoreNodeTexMath" \in rejected THEN Returns(s, FALSE)
    ELSE MultiplyWithNode(s, color_node, ao_from, ao_out, ao_source_node)

\* setup_emission: the texture through an Emission node
SetupEmission(s, tex_node) ==
    LET emission_node == Len(s.nodes) + 1
        color_input == FirstSocketContaining({"color"}, NodeInputs("LuxCoreNodeMatEmission"))
        socket == EmissionSocket(s.nodes[s.material_node].kind)
        s1 == NodesNewLabelled(s, "LuxCoreNodeMatEmission", "Emission")
        s2 == LinksNewIf(color_input # "", s1, tex_node, ColorOutput(s.nodes[tex_node].kind),
                         emission_node, color_input)
    IN  Returns(LinksNewIf(color_input # "" /\ socket # "", s2, emission_node,
                           NodeOutputs("LuxCoreNodeMatEmission")[1], s.material_node, socket),
                color_input # "" /\ socket # "")

\* setup_bump: the texture through a Bump node; nothing is done when the
\* host raises for the Bump node
SetupBump(s, tex_node) ==
    IF "LuxCoreNodeTexBump" \in rejected THEN Returns(s, FALSE) ELSE
    LET bump_node == Len(s.nodes) + 1
        value_input == FirstSocketContaining({"value"}, NodeInputs("LuxCoreNodeTexBump"))
        by_name == FirstSocketContaining({"bump"}, NodeOutputs("LuxCoreNodeTexBump"))
        bump_output == IF by_name # "" THEN by_name ELSE NodeOutputs("LuxCoreNodeTexBump")[1]
        socket_found == BumpSocket(s.nodes[s.material_node].kind)
        s1 == NodesNewLabelled(s, "LuxCoreNodeTexBump", "Bump")
        s2 == LinksNewIf(value_input # "", s1, tex_node, ColorOutput(s.nodes[tex_node].kind),
                         bump_node, value_input)
    IN  Returns(LinksNewIf(value_input # "" /\ socket_found # "", s2, bump_node, bump_output,
                           s.material_node, socket_found),
                value_input # "" /\ socket_found # "")

\* the displacement chain of the extractor's setup_displacement: the height
\* texture into a displacement node, a subdivision node into its Shape
\* input, its Shape output into the material output
DisplacementChain(s, height_node) ==
    LET displacement_node == Len(s.nodes) + 1
        subdivision_node == Len(s.nodes) + 2
        ins == NodeInputs("LuxCoreNodeShapeHeightDisplacement")
        by_name == FirstSocketContaining({"height"}, ins)
        height_input == IF by_name # "" THEN by_name ELSE ins[1]
        shape_input_disp == FirstSocketContaining({"shape"}, ins)
        shape_input == FirstSocketContaining({"shape", "displacement"},
                                             NodeInputs(s.nodes[s.material_output].kind))
        s1 == NodesNewLabelled(s, "LuxCoreNodeShapeHeightDisplacement", "Height Displacement")
        s2 == AddLabelOrName(LinksNew(s1, height_node, NodeOutputs(s.nodes[height_node].kind)[1],
                                      displacement_node, height_input),
                             height_node, " →Height")
        s3 == NodesNewLabelled(s2, "LuxCoreNodeShapeSubdiv", "Subdivision")
        s4 == LinksNewIf(shape_input_disp # "", s3, subdivision_node,
                         NodeOutputs("LuxCoreNodeShapeSubdiv")[1],
                         displacement_node, shape_input_disp)
        s5 == LinksNewIf(shape_input # "", s4, displacement_node, "Shape",
                         s.material_output, shape_input)
    IN  AddLabelIf(shape_input # "", s5, displacement_node, " →Shape")

\* extractor, setup_displacement
ExtSetupDisplacement(s, height_node) ==
    IF s.material_output = 0 THEN s ELSE DisplacementChain(s, height_node)

\* find_or_create_material_output: None when the host raises for the
\* material output
FindOrCreateMaterialOutput(s) ==
    LET found == FirstNodeOf(s, {"LuxCoreNodeMatOutput"})
    IN  IF found # 0 THEN [s EXCEPT !.material_output = found]
        ELSE IF "LuxCoreNodeMatOutput" \in rejected THEN [s EXCEPT !.material_output = 0]
        ELSE [NodesNewLabelled(s, "LuxCoreNodeMatOutput", "Material Output")
                 EXCEPT !.material_output = Len(s.nodes) + 1]

\* create_2d_mapping_node
Create2dMappingNode(s) ==
    [NodesNewLabelled(s, "LuxCoreNodeTexMapping2D", "Shared UV Mapping")
        EXCEPT !.mapping_node = Len(s.nodes) + 1]

\* a texture node that is created and not yet identified
Created(name, node) == [name |-> name, type |-> "", socket |-> "", priority |-> 0, node |-> node]

RECURSIVE CreateLuxcoreTextureNodes(_, _, _)
\* create_luxcore_texture_nodes, the loop from texture k on: one image node
\* for every texture found, named after the image
CreateLuxcoreTextureNodes(s, found_textures, k) ==
    IF k > Len(found_textures) THEN s
    ELSE CreateLuxcoreTextureNodes(
             [s EXCEPT !.nodes = Append(@, Node("LuxCoreNodeTexImagemap",
                                                ExtractorNodeName(found_textures[k]),
                                                found_textures[k], found_textures[k])),
                       !.textures = Append(@, Created(found_textures[k], Len(s.nodes) + 1))],
             found_textures, k + 1)

\* the entry of texture_info_list for a texture node of the type
ExtTextureInfo(t, tex_type) ==
    IF tex_type = "none" THEN Unassigned(t.name, t.node)
    ELSE Texture(t.name, tex_type, extractor_texture_mapping, t.node)

RECURSIVE ExtIdentify(_, _)
\* connect_textures_to_material, first pass from texture k on: the type of
\* every texture node; the last node of a type is the one remembered
ExtIdentify(s, k) ==
    IF k > Len(s.textures) THEN s
    ELSE LET identified(t, tex_type) ==
                 [s EXCEPT !.textures[k] = ExtTextureInfo(t, tex_type),
                           !.ao_node = IF tex_type = "ao" THEN t.node ELSE @,
                           !.color_node = IF tex_type = "color" THEN t.node ELSE @,
                           !.orm_node = IF tex_type = "orm" THEN t.node ELSE @,
                           !.ors_node = IF tex_type = "ors" THEN t.node ELSE @]
         IN  ExtIdentify(identified(s.textures[k], ExtractorTypes[s.textures[k].name]), k + 1)

RECURSIVE ExtCombinedTextures(_, _)
\* connect_textures_to_material, the loop that handles ORM and ORS first
ExtCombinedTextures(s, k) ==
    IF k > Len(s.textures) THEN s
    ELSE IF s.textures[k].type \in {"orm", "ors"}
    THEN ExtCombinedTextures(
             Counted(ExtSetupCombinedTexture(s, s.textures[k].node, s.textures[k].type)), k + 1)
    ELSE ExtCombinedTextures(s, k + 1)

color_keywords == <<"color", "diff", "diffuse", "albedo", "basecolor", "col", "base">>

\* the colour texture looked for in the tree when the run has none: the last
\* image node, other than the AO and combined textures, with a colour
\* keyword at a word boundary of its names
ColorTextureInTree(s) ==
    LET found == {n \in 1..Len(s.nodes) :
                     /\ s.nodes[n].kind \in TextureKinds
                     /\ n \notin {s.ao_node, s.orm_node, s.ors_node}
                     /\ LET search_text == Lower(s.nodes[n].name) \o " " \o Lower(s.nodes[n].image)
                        IN  \E k \in 1..Len(color_keywords) :
                                WordBoundaryMatch(color_keywords[k], search_text)}
    IN  IF found = {} THEN 0 ELSE CHOOSE n \in found : \A m \in found : m <= n

\* connect_textures_to_material, the AO stage: the AO channel multiplied
\* with the colour texture, or the colour texture alone into Base Color
ExtAoStage(s) ==
    LET has_ao == s.ao_node # 0 /\ Len(NodeOutputs(s.nodes[s.ao_node].kind)) > 0
        ao_from == IF has_ao THEN s.ao_node
                   ELSE IF s.orm_ao_channel # 0 THEN s.orm_ao_channel ELSE s.ors_ao_channel
        ao_out == IF has_ao THEN ColorOutput(s.nodes[s.ao_node].kind)
                  ELSE NodeOutputs("LuxCoreNodeTexSplitFloat3")[1]
        ao_source_node == IF s.ao_node # 0 THEN s.ao_node
                          ELSE IF s.orm_node # 0 THEN s.orm_node ELSE s.ors_node
        mapped(x, tex_node) == IF tex_node # 0 THEN ExtConnectMapping(x, tex_node) ELSE x
        multiplied(x, color_texture_for_ao) ==
            Counted(MultiplyAoWithColor(mapped(x, color_texture_for_ao), color_texture_for_ao,
                                        ao_from, ao_out, ao_source_node))
        color_output == ColorOutput(s.nodes[s.color_node].kind)
        direct == color_output # ""
                  /\ HasSocket(NodeInputs(s.nodes[s.material_node].kind), "Base Color")
        linked(x) == Counted(Returns(AddLabelIf(direct,
                                                LinksNewIf(direct, x, s.color_node, color_output,
                                                           s.material_node, "Base Color"),
                                                s.color_node, " →Base Color"),
                                     direct))
    IN  IF ao_from # 0
        THEN multiplied(mapped(s, IF has_ao THEN s.ao_node ELSE 0),
                        IF s.color_node # 0 THEN s.color_node ELSE ColorTextureInTree(s))
        ELSE IF s.color_node # 0 THEN linked(ExtConnectMapping(s, s.color_node))
        ELSE s

\* the kinds auto_connect_textures accepts as the material node
ExtMaterialKinds ==
    {"LuxCoreNodeMatDisney", "LuxCoreNodeMatGlossy2", "LuxCoreNodeMatMatte",
     "LuxCoreNodeMatGlass", "LuxCoreNodeMatMetal", "LuxCoreNodeMatMirror",
     "LuxCoreNodeMatMix", "LuxCoreNodeMatNull"}

\* connect_textures_to_material, second pass, the body for one texture; a
\* socket of None looked up in material_node.inputs raises in the host
\* (raises) or is simply absent
ExtConnectTexture(s, t, raises) ==
    LET ins == NodeInputs(s.nodes[s.material_node].kind)
        out0 == NodeOutputs(s.nodes[t.node].kind)[1]
        labelled(x) == SetLabel(x, t.node, Upper(t.type) \o ": " \o x.nodes[t.node].label)
        counted(x) == IF x.success THEN Counted(labelled(x)) ELSE x
        connected(x) ==
            IF t.type = "emission" THEN counted(SetupEmission(x, t.node))
            ELSE IF t.type = "bump" THEN counted(SetupBump(x, t.node))
            ELSE IF t.type = "normal"
            THEN IF HasSocket(ins, t.socket)
                 THEN [counted(Returns(LinksNew(x, t.node, out0, s.material_node, t.socket), TRUE))
                          EXCEPT !.nodes[t.node].normalmap = TRUE]
                 ELSE x
            ELSE IF t.socket = "" /\ raises THEN x
            ELSE IF t.socket # "" /\ HasSocket(ins, t.socket)
            THEN counted(Returns(LinksNew(x, t.node, out0, s.material_node, t.socket), TRUE))
            ELSE IF t.type = "height"
            THEN counted(Returns(ExtSetupDisplacement(x, t.node), TRUE))
            ELSE IF t.type = "unassigned" THEN labelled(x)
            ELSE x
    IN  connected(ExtConnectMapping(s, t.node))

\* any(c > 0.001 for c in color) and the strength test of
\* apply_principled_values_to_disney; a colour is a triple of thousandths,
\* strength -1 stands for a value that was not extracted
HasValidEmission(emission_color, emission_strength) ==
    /\ emission_color # <<>>
    /\ \E c \in 1..3 : emission_color[c] > 1
    /\ emission_strength = -1 \/ emission_strength > 0

\* create_emission_from_values
CreateEmissionFromValues(s, disney_node) ==
    LET ins == NodeInputs(s.nodes[disney_node].kind)
        socket == IF HasSocket(ins, "Emission") THEN "Emission"
                  ELSE FirstSocketContaining({"emission"}, ins)
    IN  LinksNewIf(socket # "",
                   NodesNewLabelled(s, "LuxCoreNodeMatEmission", "Emission (from Principled)"),
                   Len(s.nodes) + 1, NodeOutputs("LuxCoreNodeMatEmission")[1],
                   disney_node, socket)

\* apply_principled_values_to_disney, as far as it changes the tree
ApplyPrincipledValuesToDisney(s, emission_color, emission_strength) ==
    LET disney_node == FirstNodeOf(s, DisneyKinds)
    IN  IF disney_node = 0 THEN s
        ELSE IF HasValidEmission(emission_color, emission_strength)
        THEN CreateEmissionFromValues(s, disney_node)
        ELSE s

-----------------------------------------------------------------------------
(* Operator runs.  A run is started when no run is in progress; its steps  *)
(* then follow one another until it returns.                               *)

MaxOps == 2

MaxStartNodes == 4

\* an operator can be invoked: no run is in progress.  The number of runs
\* and the size of the tree a run starts on are bounded.
CanStart ==
    /\ cpc = "off"
    /\ run.pc \in {"idle", "done"}
    /\ ops < MaxOps
    /\ Len(nodes) <= MaxStartNodes

\* where the extractor goes on after the textures: the value transfer, when
\* asked for, else it returns
ExtAfterTextures(s) ==
    IF s.transfer THEN [s EXCEPT !.pc = "transfer"] ELSE Return(s, "FINISHED")

\* extractor, execute, up to the creation of the texture nodes.  The
\* Principled material has values to transfer whenever the transfer is on.
ExtractorExecute ==
    /\ CanStart
    /\ \E auto_connect \in BOOLEAN, transfer_principled_values \in BOOLEAN :
           LET s0 == [Begin("extractor") EXCEPT !.auto_connect = auto_connect,
                                                !.transfer = transfer_principled_values]
               created(x) == IF auto_connect /\ assets # <<>>
                             THEN [x EXCEPT !.pc = "auto_connect"]
                             ELSE ExtAfterTextures(x)
           IN  IF assets = <<>> /\ ~transfer_principled_values
               THEN Commit(Return(s0, "CANCELLED"))
               ELSE Commit(created(CreateLuxcoreTextureNodes(s0, assets, 1)))
    /\ ops' = ops + 1
    /\ UNCHANGED <<assets, rejected, resolve, walk, cvars>>

\* extractor, auto_connect_textures up to the second pass of
\* connect_textures_to_material: the material node, the shared mapping node
\* (create_uv_node is on), the material output, the types, the combined
\* textures and the AO stage
ExtractorAutoConnect ==
    /\ run.op = "extractor" /\ run.pc = "auto_connect"
    /\ LET material_node == FirstNodeOf([nodes |-> nodes], ExtMaterialKinds)
           s1 == FindOrCreateMaterialOutput(
                     Create2dMappingNode([Frame EXCEPT !.material_node = material_node]))
           s2 == [ExtIdentify(s1, 1) EXCEPT !.textures = SortByPriority(@)]
           s3 == ExtAoStage(ExtCombinedTextures(s2, 1))
       IN  IF material_node = 0 THEN Commit(ExtAfterTextures(Frame))
           ELSE Commit([s3 EXCEPT !.pc = "textures", !.i = 1])
    /\ UNCHANGED <<assets, rejected, resolve, walk, ops, cvars>>

\* extractor, connect_textures_to_material, second pass: one texture
ExtractorTexture ==
    /\ run.op = "extractor" /\ run.pc = "textures"
    /\ LET t == run.textures[run.i]
           next(s) == IF run.i = Len(run.textures) THEN ExtAfterTextures(s)
                      ELSE [s EXCEPT !.i = @ + 1]
       IN  IF t.type \in {"orm", "ors", "ao", "color"} THEN Commit(next(Frame))
           ELSE \E raises \in BOOLEAN : Commit(next(ExtConnectTexture(Frame, t, raises)))
    /\ UNCHANGED <<assets, rejected, resolve, walk, ops, cvars>>

\* the Emission Color and Emission Strength values extracted from the
\* Principled node; <<>> and -1 when the input is linked to a texture
EmissionColors == {<<>>, <<0, 0, 0>>, <<1, 1, 1>>, <<1000, 500, 0>>}

EmissionStrengths == {-1, 0, 1}

\* extractor, execute: the Principled values applied to the Disney node
ExtractorTransfer ==
    /\ run.op = "extractor" /\ run.pc = "transfer"
    /\ \E emission_color \in EmissionColors, emission_strength \in EmissionStrengths :
           Commit(Return(ApplyPrincipledValuesToDisney(Frame, emission_color, emission_strength),
                         "FINISHED"))
    /\ UNCHANGED <<assets, rejected, resolve, walk, ops, cvars>>

-----------------------------------------------------------------------------
(* The Disney setup, LUXCORE_OT_select_pbr_textures.execute                *)

\* the name of the checkbox property of the image node of the host
normalmap_prop == "is_normal_map"

\* display_name[:15]
Truncate(text, n) == IF Len(text) > n THEN SubSeq(text, 1, n) ELSE text

RECURSIVE DisneyIdentify(_, _, _)
\* Disney setup, the loop over file_list from file k on: a file of a known
\* or forced type joins textures_to_load, another is reported and left out
DisneyIdentify(s, k, force_type) ==
    IF k > Len(assets) THEN s
    ELSE LET identified(filename, tex_type) ==
                 IF tex_type = "none" THEN [s EXCEPT !.unrecognised = @ \cup {filename}]
                 ELSE [s EXCEPT !.textures =
                          Append(@, Texture(filename, tex_type, disney_texture_mapping, 0))]
         IN  DisneyIdentify(
                 identified(assets[k], DisneyForce(DisneyMatches[assets[k]], force_type).type),
                 k + 1, force_type)

\* the link from the shared mapping node to a new texture node
DisneyConnectMapping(s, tex_node) ==
    LET input_name == FirstSocket(<<"2D Mapping", "Mapping", "UV", "UV Map", "UVs", "Vector">>,
                                  NodeInputs(s.nodes[tex_node].kind))
        output_name == FirstSocket(<<"2D Mapping", "Mapping", "UV", "Vector", "Output">>,
                                   NodeOutputs(s.nodes[s.mapping_node].kind))
        found == input_name # "" /\ output_name # ""
    IN  AddLabelIf(found, LinksNewIf(found, s, s.mapping_node, output_name, tex_node, input_name),
                   tex_node, " [UV]")

\* the label mark of the textures remembered for later
DisneyMark(tex_type) ==
    CASE tex_type = "color" -> " [Color]"
      [] tex_type = "ao" -> " [AO]"
      [] tex_type = "normal" -> " [Normal]"
      [] tex_type = "bump" -> " [Bump]"
      [] tex_type = "height" -> " [Height]"
      [] OTHER -> ""

\* Disney setup, the normal map branch: the checkbox when the node has a
\* property of that name, then the link into the Bump socket
DisneyNormal(s, tex_node) ==
    LET socket_found == BumpSocket(s.nodes[s.material_node].kind)
        found == socket_found # "" /\ HasSocket(NodeOutputs(s.nodes[tex_node].kind), "Color")
    IN  AddLabelIf(found,
                   LinksNewIf(found,
                              [s EXCEPT !.nodes[tex_node].normalmap =
                                            (normalmap_prop = "normalmap") \/ @],
                              tex_node, "Color", s.material_node, socket_found),
                   tex_node, " →Bump")

\* Disney setup, the bump branch, when the host raises for the Bump node:
\* the texture is linked to the socket Bump of the Disney node
DisneyBumpFallback(s, tex_node) ==
    LET socket_found == FirstSocket(<<"Bump", "bump">>, NodeInputs(s.nodes[s.material_node].kind))
    IN  LinksNewIf(socket_found # "" /\ HasSocket(NodeOutputs(s.nodes[tex_node].kind), "Color"),
                   s, tex_node, "Color", s.material_node, socket_found)

\* Disney setup, the bump branch
DisneyBump(s, tex_node) ==
    IF "LuxCoreNodeTexBump" \in rejected THEN DisneyBumpFallback(s, tex_node) ELSE
    LET bump_node == Len(s.nodes) + 1
        value_input == FirstSocketContaining({"value"}, NodeInputs("LuxCoreNodeTexBump"))
        socket_found == BumpSocket(s.nodes[s.material_node].kind)
        found == socket_found # "" /\ HasSocket(NodeOutputs("LuxCoreNodeTexBump"), "Bump")
        s1 == LinksNewIf(HasSocket(NodeOutputs(s.nodes[tex_node].kind), "Color")
                             /\ value_input # "",
                         NodesNewLabelled(s, "LuxCoreNodeTexBump", "Bump"),
                         tex_node, "Color", bump_node, value_input)
    IN  AddLabelIf(found,
                   LinksNewIf(found, s1, bump_node, "Bump", s.material_node, socket_found),
                   tex_node, " →Bump Node")

\* the material output of the height branch: the one found at the start of
\* the run, else a new one
DisneyMaterialOutput(s) ==
    IF s.material_output # 0 THEN s
    ELSE [NodesNewLabelled(s, "LuxCoreNodeMatOutput", "Material Output")
             EXCEPT !.material_output = Len(s.nodes) + 1]

\* Disney setup, the height branch, with the material output in place
DisneyDisplacement(s, tex_node) ==
    LET displacement_node == Len(s.nodes) + 1
        subdivision_node == Len(s.nodes) + 2
        ins == NodeInputs("LuxCoreNodeShapeHeightDisplacement")
        has_color == HasSocket(NodeOutputs(s.nodes[tex_node].kind), "Color")
        input_name == FirstSocket(<<"Height", "height", "Displacement", "displacement",
                                    "Texture", "texture", "Input">>, ins)
        shape_input_disp == FirstSocketContaining({"shape"}, ins)
        shape_input == FirstSocket(<<"Displacement", "displacement", "Shape", "shape">>,
                                   NodeInputs(s.nodes[s.material_output].kind))
        s1 == LinksNewIf(/\ HasSocket(NodeOutputs(s.nodes[s.material_node].kind), "Material")
                         /\ HasSocket(NodeInputs(s.nodes[s.material_output].kind), "Material")
                         /\ Link(s.material_node, "Material", s.material_output, "Material")
                                \notin s.links,
                         s, s.material_node, "Material", s.material_output, "Material")
        s2 == NodesNewLabelled(s1, "LuxCoreNodeShapeHeightDisplacement", "Height Displacement")
        s3 == AddLabelIf(has_color,
                         LinksNewIf(has_color, s2, tex_node, "Color", displacement_node,
                                    IF input_name # "" THEN input_name ELSE ins[1]),
                         tex_node, IF input_name # "" THEN " →Height" ELSE " →Input0")
        s4 == NodesNewLabelled(s3, "LuxCoreNodeShapeSubdiv", "Subdivision")
        s5 == AddLabelIf(shape_input_disp # "",
                         LinksNewIf(shape_input_disp # "", s4, subdivision_node,
                                    NodeOutputs("LuxCoreNodeShapeSubdiv")[1],
                                    displacement_node, shape_input_disp),
                         tex_node, " +Subdiv")
    IN  AddLabelIf(shape_input # "",
                   LinksNewIf(shape_input # "", s5, displacement_node, "Shape",
                              s.material_output, shape_input),
                   tex_node, " →" \o shape_input)

\* Disney setup, the height branch; the texture is left aside when there
\* is no material output and the host raises for a new one
DisneyHeight(s, tex_node) ==
    IF s.material_output = 0 /\ "LuxCoreNodeMatOutput" \in rejected
    THEN AddLabel(s, tex_node, " [No Output Node]")
    ELSE DisneyDisplacement(DisneyMaterialOutput(s), tex_node)

\* Disney setup, the emission branch
DisneyEmission(s, tex_node) ==
    LET emission_node == Len(s.nodes) + 1
        color_input == FirstSocketContaining({"color"}, NodeInputs("LuxCoreNodeMatEmission"))
        found == HasSocket(NodeOutputs(s.nodes[tex_node].kind), "Color") /\ color_input # ""
        socket == EmissionSocket(s.nodes[s.material_node].kind)
        s1 == AddLabelIf(found,
                         LinksNewIf(found, NodesNewLabelled(s, "LuxCoreNodeMatEmission", "Emission"),
                                    tex_node, "Color", emission_node, color_input),
                         tex_node, " →Emission")
    IN  LinksNewIf(socket # "", s1, emission_node, NodeOutputs("LuxCoreNodeMatEmission")[1],
                   s.material_node, socket)

\* Disney setup, PHASE 1, the body of the loop for the texture t at
\* position k of textures_to_load
DisneyLoadTexture(s, k) ==
    LET t == s.textures[k]
        covers == IF t.type = "orm" THEN {"metallic", "roughness", "ao"}
                  ELSE IF t.type = "ors" THEN {"specular", "roughness", "ao"} ELSE {}
        tex_node == Len(s.nodes) + 1
        label == Upper(t.type) \o ": " \o Truncate(SplitExtRoot(t.name), 15) \o "..."
        generic == /\ t.type \notin {"color", "ao", "orm", "ors"}
                   /\ t.socket # ""
                   /\ HasSocket(NodeInputs(s.nodes[s.material_node].kind), t.socket)
                   /\ HasSocket(NodeOutputs("LuxCoreNodeTexImagemap"), "Color")
        mapped(x) == IF s.mapping_node # 0 /\ s.auto_connect
                     THEN DisneyConnectMapping(x, tex_node) ELSE x
        connected(x) ==
            IF ~s.auto_connect THEN x
            ELSE IF t.type = "normal" THEN DisneyNormal(x, tex_node)
            ELSE IF t.type = "bump" THEN DisneyBump(x, tex_node)
            ELSE IF t.type = "height" THEN DisneyHeight(x, tex_node)
            ELSE IF t.type = "emission" THEN DisneyEmission(x, tex_node)
            ELSE AddLabelIf(generic,
                            LinksNewIf(generic, x, tex_node, "Color", s.material_node, t.socket),
                            tex_node, " →" \o t.socket)
    IN  IF t.type \in {"metallic", "roughness", "ao", "specular"} /\ t.type \in s.covered_types
        THEN s
        ELSE connected(AddLabel(mapped(
                 [s EXCEPT !.covered_types = @ \cup covers \cup {t.type},
                           !.nodes = Append(@, Node("LuxCoreNodeTexImagemap",
                                                    DefaultName("LuxCoreNodeTexImagemap"),
                                                    label, t.name)),
                           !.textures[k].node = tex_node,
                           !.orm_node = IF t.type = "orm" THEN tex_node ELSE @,
                           !.ors_node = IF t.type = "ors" THEN tex_node ELSE @,
                           !.color_node = IF t.type = "color" THEN tex_node ELSE @,
                           !.ao_node = IF t.type = "ao" THEN tex_node ELSE @,
                           !.normal_nodes = IF t.type = "normal" THEN @ \cup {tex_node} ELSE @]),
                 tex_node, DisneyMark(t.type)))

\* setup_orm_texture and setup_ors_texture, with the label the caller puts
\* on the combined texture
DisneySetupCombined(s, combined_node, tex_type) ==
    SetupCombinedTexture(s, combined_node, tex_type)

\* the first texture node loaded with the type; 0 when there is none
LoadedNode(s, tex_type) ==
    LET found == {k \in 1..Len(s.textures) :
                     s.textures[k].type = tex_type /\ s.textures[k].node # 0}
    IN  IF found = {} THEN 0 ELSE s.textures[Min(found)].node

RECURSIVE ActivateNormalmaps(_, _)
\* the loop that activates the Normalmap checkbox of the normal_nodes
ActivateNormalmaps(s, todo) ==
    IF todo = {} THEN s
    ELSE ActivateNormalmaps(
             AddLabel([s EXCEPT !.nodes[Min(todo)].normalmap = TRUE], Min(todo),
                      IF normalmap_prop \in {"normalmap", "normal_map", "use_normalmap",
                                             "use_normal_map", "is_normalmap", "normal",
                                             "as_normal"}
                      THEN " [Normalmap ON]" ELSE " [" \o normalmap_prop \o " ON]"),
             todo \ {Min(todo)})

\* the colour texture alone into Base Color; success tells whether the
\* link was made
ColorToBaseColor(s, color_node) ==
    LET color_output == ColorOutput(s.nodes[color_node].kind)
        found == /\ color_output # ""
                 /\ HasSocket(NodeInputs(s.nodes[s.material_node].kind), "Base Color")
    IN  Returns(AddLabelIf(found,
                           LinksNewIf(found, s, color_node, color_output,
                                      s.material_node, "Base Color"),
                           color_node, " →Base Color"),
                found)

\* with a Math node created: it multiplies the colour texture with the AO
\* channel (output ao_out of node ao_from): the colour into the first input, the AO
\* channel into the second, the result into Base Color
AoMultiplyWithNode(s, color_node, ao_from, ao_out, ao_node) ==
    LET mix_node == Len(s.nodes) + 1
        ins == NodeInputs("LuxCoreNodeTexMath")
        color_output == ColorOutput(s.nodes[color_node].kind)
        color_connected == Len(ins) > 0 /\ color_output # ""
        ao_connected == Len(ins) > 1
        by_name == FirstSocketContaining({"value", "color", "result"},
                                         NodeOutputs("LuxCoreNodeTexMath"))
        output_socket == IF by_name # "" THEN by_name ELSE NodeOutputs("LuxCoreNodeTexMath")[1]
        base_color == /\ color_connected /\ ao_connected
                      /\ HasSocket(NodeInputs(s.nodes[s.material_node].kind), "Base Color")
        s1 == AddLabelIf(color_connected,
                         LinksNewIf(color_connected,
                                    NodesNewLabelled(s, "LuxCoreNodeTexMath", "AO Multiply"),
                                    color_node, color_output, mix_node, ins[1]),
                         color_node, " →Math")
        s2 == AddLabelIf(ao_connected /\ ao_node # 0,
                         LinksNewIf(ao_connected, s1, ao_from, ao_out, mix_node, ins[2]),
                         ao_node, " →Math")
    IN  AddLabelIf(base_color,
                   LinksNewIf(base_color, s2, mix_node, output_socket,
                              s.material_node, "Base Color"),
                   mix_node, " →Base Color")

\* the multiplication of the colour texture with the AO channel; when the
\* host has none of the Math node types, the colour texture alone is
\* linked to Base Color
AoMultiply(s, color_node, ao_from, ao_out, ao_node) ==
    IF "LuxCoreNodeTexMath" \in rejected THEN ColorToBaseColor(s, color_node)
    ELSE AoMultiplyWithNode(s, color_node, ao_from, ao_out, ao_node)

\* the node whose output is the AO channel of a run: the AO texture, else
\* the ORM split node, else the ORS split node; 0 when there is none
AoChannelNode(s) ==
    IF s.ao_node # 0 /\ Len(NodeOutputs(s.nodes[s.ao_node].kind)) > 0 THEN s.ao_node
    ELSE IF s.orm_ao_channel # 0 THEN s.orm_ao_channel
    ELSE s.ors_ao_channel

\* the output that is the AO channel: the colour output of the AO texture,
\* channel R of a split node
AoChannelOutput(s) ==
    IF s.ao_node # 0 /\ Len(NodeOutputs(s.nodes[s.ao_node].kind)) > 0
    THEN ColorOutput(s.nodes[s.ao_node].kind)
    ELSE NodeOutputs("LuxCoreNodeTexSplitFloat3")[1]

\* Disney setup, the AO multiplication after PHASE 2
DisneyAoStage(s) ==
    IF s.auto_connect /\ s.color_node # 0 /\ AoChannelNode(s) # 0
    THEN AoMultiply(s, s.color_node, AoChannelNode(s), AoChannelOutput(s), s.ao_node)
    ELSE IF s.auto_connect /\ s.color_node # 0
    THEN ColorToBaseColor(s, s.color_node)
    ELSE s

\* Disney setup, PHASE 2: setup_orm_texture or setup_ors_texture on the
\* texture node of the type, when one was loaded
DisneyCombinedPhase(s, tex_type, remembered) ==
    IF remembered # 0 /\ s.auto_connect /\ LoadedNode(s, tex_type) # 0
    THEN DisneySetupCombined(s, LoadedNode(s, tex_type), tex_type)
    ELSE s

\* Disney setup, PHASE 2 and what follows it: the combined textures, the
\* Normalmap checkboxes, the AO multiplication
DisneyFinishPhases(s) ==
    DisneyAoStage(
        ActivateNormalmaps(
            DisneyCombinedPhase(DisneyCombinedPhase(s, "orm", s.orm_node), "ors", s.ors_node),
            s.normal_nodes))

-----------------------------------------------------------------------------
(* connect-existing-textures, LUXCORE_OT_connect_existing_textures         *)

\* the texture nodes of the tree, in tree order
TextureNodes(s) == {n \in 1..Len(s.nodes) : s.nodes[n].kind \in TextureKinds}

RECURSIVE ConnectIdentify(_, _)
\* connect_textures_to_material, first pass over the texture nodes from
\* node n on: a node no keyword matches is left out of texture_info_list
ConnectIdentify(s, n) ==
    IF n > Len(s.nodes) THEN s
    ELSE IF s.nodes[n].kind \notin TextureKinds THEN ConnectIdentify(s, n + 1)
    ELSE LET identified(tex_type) ==
                 IF tex_type = "none" THEN s
                 ELSE [s EXCEPT !.textures =
                          Append(@, Texture(s.nodes[n].image, tex_type,
                                            connect_texture_mapping, n))]
         IN  ConnectIdentify(identified(ConnectTypes[<<s.nodes[n].name, s.nodes[n].image>>]),
                             n + 1)

\* connect-existing-textures, connect_mapping_to_texture
ConnectMappingToTexture(s, tex_node) ==
    LET ins == NodeInputs(s.nodes[tex_node].kind)
        outs == NodeOutputs(s.nodes[s.mapping_node].kind)
        mapping_inputs == {"2d mapping", "mapping", "uv", "uv map", "uvs", "vector"}
        named == {i \in 1..Len(ins) : \E m \in mapping_inputs : Contains(Lower(ins[i]), m)}
        output_name == FirstSocket(<<"2D Mapping", "Mapping", "UV", "Vector", "Output">>, outs)
    IN  IF Len(outs) = 0 \/ Len(ins) = 0 THEN s
        ELSE IF named # {} /\ output_name # ""
        THEN AddLabelOrName(LinksNew(s, s.mapping_node, output_name, tex_node, ins[Min(named)]),
                            tex_node, " [UV]")
        ELSE IF ~Contains(Lower(ins[1]), "color") /\ ~Contains(Lower(ins[1]), "height")
        THEN AddLabelOrName(LinksNew(s, s.mapping_node, outs[1], tex_node, ins[1]),
                            tex_node, " [UV0]")
        ELSE s

\* connect-existing-textures, activate_normal_map: the first property of
\* the list the node has is set
ConnectActivateNormalMap(s, tex_node) ==
    IF normalmap_prop \in {"is_normal_map", "normalmap", "normal_map", "use_normalmap",
                           "use_normal_map", "is_normalmap", "normal", "as_normal"}
    THEN IF s.nodes[tex_node].normalmap
         THEN AddLabel(s, tex_node, " [Normalmap ON]")
         ELSE AddLabel([s EXCEPT !.nodes[tex_node].normalmap = TRUE], tex_node,
                       " [" \o normalmap_prop \o "=True]")
    ELSE AddLabel(s, tex_node, " [No Normalmap Prop]")

\* connect-existing-textures, setup_bump
ConnectSetupBump(s, tex_node) ==
    AddLabelIfSuccess(SetupBump(s, tex_node), tex_node, " →Bump Node")

\* connect-existing-textures, setup_displacement, with a material output
ConnectDisplacementChain(s, height_node) ==
    LET displacement_node == Len(s.nodes) + 1
        subdivision_node == Len(s.nodes) + 2
        ins == NodeInputs("LuxCoreNodeShapeHeightDisplacement")
        input_name == FirstSocket(<<"Height", "height", "Displacement", "displacement",
                                    "Texture", "texture">>, ins)
        color_output == ColorOutput(s.nodes[height_node].kind)
        height_found == input_name # "" /\ color_output # ""
        shape_input_disp == FirstSocketContaining({"shape"}, ins)
        by_name == FirstSocketContaining({"shape"}, NodeOutputs("LuxCoreNodeShapeSubdiv"))
        shape_output_subdiv == IF by_name # "" THEN by_name
                               ELSE NodeOutputs("LuxCoreNodeShapeSubdiv")[1]
        shape_input == FirstSocket(<<"Displacement", "displacement", "Shape", "shape">>,
                                   NodeInputs(s.nodes[s.material_output].kind))
        outs == NodeOutputs("LuxCoreNodeShapeHeightDisplacement")
        shape_output == IF HasSocket(outs, "Shape") THEN "Shape" ELSE outs[1]
        s1 == NodesNewLabelled(s, "LuxCoreNodeShapeHeightDisplacement", "Height Displacement")
        s2 == AddLabelIf(height_found,
                         LinksNewIf(height_found, s1, height_node, color_output,
                                    displacement_node, input_name),
                         height_node, " →Height")
        s3 == NodesNewLabelled(s2, "LuxCoreNodeShapeSubdiv", "Subdivision")
        s4 == AddLabelIf(shape_input_disp # "",
                         LinksNewIf(shape_input_disp # "", s3, subdivision_node,
                                    shape_output_subdiv, displacement_node, shape_input_disp),
                         subdivision_node, " →Shape")
    IN  AddLabelIf(shape_input # "",
                   LinksNewIf(shape_input # "", s4, displacement_node, shape_output,
                              s.material_output, shape_input),
                   displacement_node, " →" \o shape_input)

\* connect-existing-textures, setup_displacement
ConnectSetupDisplacement(s, height_node) ==
    IF s.material_output = 0 THEN s ELSE ConnectDisplacementChain(s, height_node)

\* connect_textures_to_material, second pass, the normal map branch
ConnectNormal(s, tex_node) ==
    LET socket_found == BumpSocket(s.nodes[s.material_node].kind)
        color_output == ColorOutput(s.nodes[tex_node].kind)
        linked(x) == ConnectActivateNormalMap(
                         AddLabel([LinksNew(x, tex_node, color_output,
                                            s.material_node, socket_found)
                                      EXCEPT !.count = @ + 1],
                                  tex_node, " →Bump"),
                         tex_node)
        connected(x) == IF socket_found # "" /\ color_output # "" THEN linked(x) ELSE x
    IN  connected(PrefixLabelOrName([s EXCEPT !.normal_nodes = @ \cup {tex_node}],
                                    tex_node, "NORMAL: "))

\* connect_textures_to_material, second pass, the branch of the types with
\* a socket of their own
ConnectGeneric(s, t) ==
    LET color_output == ColorOutput(s.nodes[t.node].kind)
        found == /\ t.socket # ""
                 /\ HasSocket(NodeInputs(s.nodes[s.material_node].kind), t.socket)
                 /\ color_output # ""
    IN  IF found
        THEN [LinksNew(s, t.node, color_output, s.material_node, t.socket)
                 EXCEPT !.count = @ + 1,
                        !.nodes[t.node].label = Upper(t.type) \o ": " \o LabelOrName(s.nodes[t.node])
                                                \o " →" \o t.socket]
        ELSE s

\* connect_textures_to_material, second pass, the body of the loop for the
\* texture at position k of texture_info_list
ConnectTexture(s, k) ==
    LET t == s.textures[k]
        prefix == Upper(t.type) \o ": "
        mapped(x) == IF s.mapping_node # 0 THEN ConnectMappingToTexture(x, t.node) ELSE x
        combined(x, covers) ==
            [Counted(SetupCombinedTexture(x, t.node, t.type))
                EXCEPT !.covered_types = @ \cup covers,
                       !.orm_node = IF t.type = "orm" THEN t.node ELSE @,
                       !.ors_node = IF t.type = "ors" THEN t.node ELSE @]
        covered(x) == [x EXCEPT !.covered_types = @ \cup {t.type}]
        connected(x) ==
            IF t.type = "orm" THEN combined(x, {"metallic", "roughness", "ao"})
            ELSE IF t.type = "ors" THEN combined(x, {"specular", "roughness", "ao"})
            ELSE IF t.type = "color"
            THEN PrefixLabelOrName([covered(x) EXCEPT !.color_node = t.node], t.node, prefix)
            ELSE IF t.type = "ao"
            THEN PrefixLabelOrName([covered(x) EXCEPT !.ao_node = t.node], t.node, prefix)
            ELSE IF t.type = "normal" THEN ConnectNormal(covered(x), t.node)
            ELSE IF t.type = "bump"
            THEN PrefixedAndCounted(ConnectSetupBump(covered(x), t.node), t.node, prefix)
            ELSE IF t.type = "height"
            THEN PrefixedAndCounted(Returns(ConnectSetupDisplacement(covered(x), t.node), TRUE),
                                    t.node, prefix)
            ELSE IF t.type = "emission"
            THEN PrefixedAndCounted(SetupEmission(covered(x), t.node), t.node, prefix)
            ELSE ConnectGeneric(covered(x), t)
    IN  IF t.type \in {"metallic", "roughness", "ao", "specular"} /\ t.type \in s.covered_types
        THEN s
        ELSE connected(mapped(s))

\* connect-existing-textures, setup_ao_multiply
SetupAoMultiply(s, color_node, ao_from, ao_out, ao_node) ==
    AoMultiply(s, color_node, ao_from, ao_out, ao_node)

\* connect_textures_to_material, the AO stage after the second pass
ConnectAoStage(s) ==
    IF s.color_node # 0 /\ AoChannelNode(s) # 0
    THEN [SetupAoMultiply(s, s.color_node, AoChannelNode(s), AoChannelOutput(s),
                          IF s.ao_node # 0 THEN s.ao_node
                          ELSE IF s.orm_node # 0 THEN s.orm_node ELSE s.ors_node)
             EXCEPT !.count = @ + 1]
    ELSE IF s.color_node # 0 THEN Counted(ColorToBaseColor(s, s.color_node))
    ELSE s

-----------------------------------------------------------------------------
(* connect-selected-texture, LUXCORE_OT_connect_selected_texture.  What a  *)
(* connect method returns is left in the field success.                   *)

texture_types ==
    {"COLOR", "ROUGHNESS", "NORMAL", "BUMP", "SPECULAR", "METALLIC", "OCCLUSION", "HEIGHT",
     "OPACITY", "EMISSION", "ORM", "ORS"}

TextureHasColor(s, texture_node) == HasSocket(NodeOutputs(s.nodes[texture_node].kind), "Color")

\* connect_color, connect_roughness, connect_specular, connect_metallic,
\* connect_opacity: the Color output into the socket of the Disney node
SelConnectSocket(s, texture_node, socket, prefix) ==
    LET found == /\ HasSocket(NodeInputs(s.nodes[s.material_node].kind), socket)
                 /\ TextureHasColor(s, texture_node)
    IN  Returns(PrefixLabelOrNameIf(found,
                                    LinksNewIf(found, s, texture_node, "Color",
                                               s.material_node, socket),
                                    texture_node, prefix),
                found)

\* connect_normal, for a LuxCore image node
SelConnectNormal(s, texture_node) ==
    LET socket_found == BumpSocket(s.nodes[s.material_node].kind)
        found == socket_found # "" /\ TextureHasColor(s, texture_node)
    IN  [PrefixLabelOrNameIf(found,
                             LinksNewIf(found, s, texture_node, "Color",
                                        s.material_node, socket_found),
                             texture_node, "NORMAL: ")
            EXCEPT !.nodes[texture_node].normalmap = found \/ @,
                   !.success = found]

\* connect_bump; False when the host raises for the Bump node
SelConnectBump(s, texture_node) ==
    IF "LuxCoreNodeTexBump" \in rejected THEN Returns(s, FALSE) ELSE
    LET bump_node == Len(s.nodes) + 1
        value_input == FirstSocketContaining({"value"}, NodeInputs("LuxCoreNodeTexBump"))
        socket_found == BumpSocket(s.nodes[s.material_node].kind)
        found == socket_found # "" /\ HasSocket(NodeOutputs("LuxCoreNodeTexBump"), "Bump")
        s1 == LinksNewIf(TextureHasColor(s, texture_node) /\ value_input # "",
                         NodesNewLabelled(s, "LuxCoreNodeTexBump", "Bump"),
                         texture_node, "Color", bump_node, value_input)
    IN  Returns(PrefixLabelOrNameIf(found,
                                    LinksNewIf(found, s1, bump_node, "Bump",
                                               s.material_node, socket_found),
                                    texture_node, "BUMP: "),
                found)

\* connect_occlusion with the two inputs of the Math node linked and the
\* link into Base Color left as it was
OcclusionMultiplyKeepingLink(s, texture_node, existing_color_link) ==
    Returns(LinksNew(LinksNew(NodesNewLabelled(s, "LuxCoreNodeTexMath", "AO Multiply"),
                              existing_color_link.from, existing_color_link.out,
                              Len(s.nodes) + 1, "Value 1"),
                     texture_node, "Color", Len(s.nodes) + 1, "Value 2"),
            TRUE)

\* connect_occlusion, when a link feeds Base Color: the texture multiplied
\* with the source of that link
OcclusionMultiply(s, texture_node, existing_color_link) ==
    LET math_node == Len(s.nodes) + 1
        ins == NodeInputs("LuxCoreNodeTexMath")
        ao_connected == Len(ins) > 1 /\ TextureHasColor(s, texture_node)
        by_name == FirstSocketContaining({"value", "color", "result"},
                                         NodeOutputs("LuxCoreNodeTexMath"))
        output_socket == IF by_name # "" THEN by_name ELSE NodeOutputs("LuxCoreNodeTexMath")[1]
        s1 == PrefixLabelOrName(NodesNewLabelled(s, "LuxCoreNodeTexMath", "AO Multiply"),
                                texture_node, "AO: ")
        s2 == AddLabelOrName(LinksNew(s1, existing_color_link.from, existing_color_link.out,
                                      math_node, ins[1]),
                             existing_color_link.from, " →Math")
        s3 == AddLabelIf(ao_connected,
                         LinksNewIf(ao_connected, s2, texture_node, "Color", math_node, ins[2]),
                         texture_node, " →Math")
    IN  Returns(AddLabelIf(ao_connected,
                           LinksNewIf(ao_connected, LinksRemove(s3, existing_color_link),
                                      math_node, output_socket, s.material_node, "Base Color"),
                           math_node, " →Color"),
                ao_connected)

\* connect_occlusion: the texture multiplied with what feeds Base Color
SelConnectOcclusion(s, texture_node) ==
    LET existing == {l \in s.links : l.to = s.material_node /\ l.inp = "Base Color"}
    IN  IF ~HasSocket(NodeInputs(s.nodes[s.material_node].kind), "Base Color")
        THEN Returns(s, FALSE)
        ELSE IF existing = {} \/ "LuxCoreNodeTexMath" \in rejected THEN Returns(s, FALSE)
        ELSE OcclusionMultiply(s, texture_node, CHOOSE l \in existing : TRUE)

\* connect_height, with a material output
SelDisplacementChain(s, texture_node) ==
    LET displacement_node == Len(s.nodes) + 1
        subdivision_node == Len(s.nodes) + 2
        ins == NodeInputs("LuxCoreNodeShapeHeightDisplacement")
        by_name == FirstSocketContaining({"height"}, ins)
        height_input == IF by_name # "" THEN by_name ELSE ins[1]
        has_color == TextureHasColor(s, texture_node)
        shape_input_disp == FirstSocketContaining({"shape"}, ins)
        shape_input == FirstSocketContaining({"shape", "displacement"},
                                             NodeInputs(s.nodes[s.material_output].kind))
        shape_output == FirstSocketContaining({"shape"},
                                              NodeOutputs("LuxCoreNodeShapeHeightDisplacement"))
        s1 == NodesNewLabelled(s, "LuxCoreNodeShapeHeightDisplacement", "Height Displacement")
        s2 == PrefixLabelOrNameIf(has_color,
                                  LinksNewIf(has_color, s1, texture_node, "Color",
                                             displacement_node, height_input),
                                  texture_node, "HEIGHT: ")
        s3 == LinksNewIf(shape_input_disp # "",
                         NodesNewLabelled(s2, "LuxCoreNodeShapeSubdiv", "Subdivision"),
                         subdivision_node, NodeOutputs("LuxCoreNodeShapeSubdiv")[1],
                         displacement_node, shape_input_disp)
    IN  Returns(LinksNewIf(shape_input # "", s3, displacement_node, shape_output,
                           s.material_output, shape_input),
                shape_input # "")

\* connect_height
SelConnectHeight(s, texture_node) ==
    IF s.material_output = 0 THEN Returns(s, FALSE) ELSE SelDisplacementChain(s, texture_node)

\* connect_emission
SelConnectEmission(s, texture_node) ==
    LET emission_node == Len(s.nodes) + 1
        color_input == FirstSocketContaining({"color"}, NodeInputs("LuxCoreNodeMatEmission"))
        socket == EmissionSocket(s.nodes[s.material_node].kind)
        has_color == TextureHasColor(s, texture_node)
        goes_on == ~(has_color /\ color_input = "")
        s1 == PrefixLabelOrNameIf(has_color /\ goes_on,
                                  LinksNewIf(has_color /\ goes_on,
                                             NodesNewLabelled(s, "LuxCoreNodeMatEmission",
                                                              "Emission"),
                                             texture_node, "Color", emission_node, color_input),
                                  texture_node, "EMISSION: ")
    IN  Returns(LinksNewIf(goes_on /\ socket # "", s1, emission_node,
                           NodeOutputs("LuxCoreNodeMatEmission")[1], s.material_node, socket),
                goes_on /\ socket # "")

\* the first node of the tree whose label, in upper case, contains COLOR; 0
\* when there is none
FirstColorLabelled(s) ==
    LET found == {n \in 1..Len(s.nodes) : Contains(Upper(s.nodes[n].label), "COLOR")}
    IN  IF found = {} THEN 0 ELSE Min(found)

\* connect_orm and connect_ors, the end: channel R of the split node
\* multiplied with the node labelled as colour, when there is one
SelMultiplyWithColor(s, split_node, texture_node) ==
    IF FirstColorLabelled(s) # 0
    THEN Returns(MultiplyAoWithColor(s, FirstColorLabelled(s), split_node,
                                     NodeOutputs("LuxCoreNodeTexSplitFloat3")[1], texture_node),
                 TRUE)
    ELSE Returns(s, TRUE)

\* connect_orm and connect_ors (tex_type is "orm" or "ors"): the split
\* node, its channels G and B into the Disney node, its channel R
\* multiplied with the node labelled as colour
SelConnectCombined(s, texture_node, tex_type) ==
    LET split_node == Len(s.nodes) + 1
        ins == NodeInputs(s.nodes[s.material_node].kind)
        outs == NodeOutputs("LuxCoreNodeTexSplitFloat3")
        has_color == TextureHasColor(s, texture_node)
        third == IF tex_type = "orm" THEN "Metallic" ELSE "Specular"
        s1 == PrefixLabelOrNameIf(has_color,
                                  LinksNewIf(has_color,
                                             NodesNewLabelled(s, "LuxCoreNodeTexSplitFloat3",
                                                              "Split " \o Upper(tex_type)),
                                             texture_node, "Color", split_node,
                                             NodeInputs("LuxCoreNodeTexSplitFloat3")[1]),
                                  texture_node, Upper(tex_type) \o ": ")
        s2 == LinksNewIf(HasSocket(ins, "Roughness"), s1, split_node, outs[2],
                         s.material_node, "Roughness")
    IN  SelMultiplyWithColor(LinksNewIf(HasSocket(ins, third), s2, split_node, outs[3],
                                        s.material_node, third),
                             split_node, texture_node)

\* execute, the dispatch on texture_type
SelConnect(s, texture_node, texture_type) ==
    CASE texture_type = "COLOR" -> SelConnectSocket(s, texture_node, "Base Color", "COLOR: ")
      [] texture_type = "ROUGHNESS" -> SelConnectSocket(s, texture_node, "Roughness", "ROUGHNESS: ")
      [] texture_type = "NORMAL" -> SelConnectNormal(s, texture_node)
      [] texture_type = "BUMP" -> SelConnectBump(s, texture_node)
      [] texture_type = "SPECULAR" -> SelConnectSocket(s, texture_node, "Specular", "SPECULAR: ")
      [] texture_type = "METALLIC" -> SelConnectSocket(s, texture_node, "Metallic", "METALLIC: ")
      [] texture_type = "OCCLUSION" -> SelConnectOcclusion(s, texture_node)
      [] texture_type = "HEIGHT" -> SelConnectHeight(s, texture_node)
      [] texture_type = "OPACITY" -> SelConnectSocket(s, texture_node, "Opacity", "OPACITY: ")
      [] texture_type = "EMISSION" -> SelConnectEmission(s, texture_node)
      [] texture_type = "ORM" -> SelConnectCombined(s, texture_node, "orm")
      [] texture_type = "ORS" -> SelConnectCombined(s, texture_node, "ors")

\* execute: the connect method of the type, FINISHED when it succeeds
SelExecute(s, texture_node, texture_type) ==
    IF s.material_node = 0 THEN Return(s, "CANCELLED")
    ELSE LET returned(x) == Return(x, IF x.success THEN "FINISHED" ELSE "CANCELLED")
         IN  returned(SelConnect(s, texture_node, texture_type))

-----------------------------------------------------------------------------
(* The runs of the Disney setup, of connect-existing-textures and of       *)
(* connect-selected-texture.  The active node of the first two is the      *)
(* Disney node of the tree, when it has one.                               *)

\* where a run goes on after its texture list is made: the loop over the
\* textures, or what follows it when the list is empty
ToTextures(s) ==
    IF s.textures = <<>> THEN [s EXCEPT !.pc = "finish"]
    ELSE [s EXCEPT !.pc = "textures", !.i = 1, !.textures = SortByPriority(@)]

\* where a run goes on after the texture at position i
NextTexture(s, i) ==
    IF i = Len(s.textures) THEN [s EXCEPT !.pc = "finish"] ELSE [s EXCEPT !.i = i + 1]

\* Disney setup, execute, up to the sorted textures_to_load: the material
\* output is looked up, the run is cancelled when the active node is not a
\* Disney node, the shared mapping node is created, then the files are
\* identified
DisneyExecute ==
    /\ CanStart
    /\ \E auto_connect \in BOOLEAN, force_type \in ForceTypes :
           LET s1 == [NodesNewLabelled(Begin("disney"), "LuxCoreNodeTexMapping2D", "UV Mapping")
                         EXCEPT !.auto_connect = auto_connect,
                                !.material_node = FirstNodeOf([nodes |-> nodes], DisneyKinds),
                                !.material_output = FirstNodeOf([nodes |-> nodes],
                                                                {"LuxCoreNodeMatOutput"}),
                                !.mapping_node = Len(nodes) + 1]
               identified(x) == IF assets = <<>> THEN Return(x, "CANCELLED")
                                ELSE ToTextures(DisneyIdentify(x, 1, force_type))
           IN  IF FirstNodeOf([nodes |-> nodes], DisneyKinds) = 0
               THEN Commit(Return(Begin("disney"), "CANCELLED"))
               ELSE Commit(identified(s1))
    /\ ops' = ops + 1
    /\ UNCHANGED <<assets, rejected, resolve, walk, cvars>>

\* Disney setup, PHASE 1: one texture of textures_to_load
DisneyTexture ==
    /\ run.op = "disney" /\ run.pc = "textures"
    /\ Commit(NextTexture(DisneyLoadTexture(Frame, run.i), run.i))
    /\ UNCHANGED <<assets, rejected, resolve, walk, ops, cvars>>

\* Disney setup, from PHASE 2 to the return
DisneyFinish ==
    /\ run.op = "disney" /\ run.pc = "finish"
    /\ Commit(Return(DisneyFinishPhases(Frame), "FINISHED"))
    /\ UNCHANGED <<assets, rejected, resolve, walk, ops, cvars>>

\* connect-existing-textures, execute, up to the sorted texture_info_list
ConnectExecute ==
    /\ CanStart
    /\ FirstNodeOf([nodes |-> nodes], DisneyKinds) # 0
    /\ \E create_uv_node \in BOOLEAN :
           LET s0 == [Begin("connect") EXCEPT
                         !.material_node = FirstNodeOf([nodes |-> nodes], DisneyKinds)]
               mapped(x) == IF create_uv_node THEN Create2dMappingNode(x) ELSE x
               started(x) ==
                   IF TextureNodes(x) = {} THEN Return(x, "CANCELLED")
                   ELSE ToTextures(ConnectIdentify(FindOrCreateMaterialOutput(mapped(x)), 1))
           IN  Commit(started(s0))
    /\ ops' = ops + 1
    /\ UNCHANGED <<assets, rejected, resolve, walk, cvars>>

\* connect_textures_to_material, second pass: one texture
ConnectExistingTexture ==
    /\ run.op = "connect" /\ run.pc = "textures"
    /\ Commit(NextTexture(ConnectTexture(Frame, run.i), run.i))
    /\ UNCHANGED <<assets, rejected, resolve, walk, ops, cvars>>

\* connect_textures_to_material, the AO stage, and the return of execute
ConnectFinish ==
    /\ run.op = "connect" /\ run.pc = "finish"
    /\ Commit(Return(ConnectAoStage(Frame), "FINISHED"))
    /\ UNCHANGED <<assets, rejected, resolve, walk, ops, cvars>>

\* connect-selected-texture, execute: the active node is a texture node
ConnectSelected ==
    /\ CanStart
    /\ \E texture_node \in TextureNodes([nodes |-> nodes]), texture_type \in texture_types :
           Commit(SelExecute([Begin("selected") EXCEPT
                                 !.selected = texture_node, !.texture_type = texture_type,
                                 !.material_node = FirstNodeOf([nodes |-> nodes], DisneyKinds),
                                 !.material_output = FirstNodeOf([nodes |-> nodes],
                                                                 {"LuxCoreNodeMatOutput"})],
                             texture_node, texture_type))
    /\ ops' = ops + 1
    /\ UNCHANGED <<assets, rejected, resolve, walk, cvars>>

-----------------------------------------------------------------------------
(* The tree of a material before any run: its Disney node, alone or linked *)
(* to a material output as the Disney preset makes it; or a tree that has  *)
(* a material output and no Disney node.                                   *)

InitialTrees ==
    {[nodes |-> <<Node("LuxCoreNodeMatDisney", "Disney Material", "", "")>>, links |-> {}],
     [nodes |-> <<Node("LuxCoreNodeMatDisney", "Disney Material", "", ""),
                  Node("LuxCoreNodeMatOutput", "Material Output", "", "")>>,
      links |-> {Link(1, "Material", 2, "Material")}],
     [nodes |-> <<Node("LuxCoreNodeMatOutput", "Material Output", "", "")>>, links |-> {}]}

Init ==
    /\ cpc = "off" /\ centry = "" /\ cname = "" /\ cnode = "" /\ cforce = "AUTO"
    /\ cresult = NoMatch
    /\ \E tree \in InitialTrees : nodes = tree.nodes /\ links = tree.links
    /\ assets \in AssetLists
    /\ rejected = {}
    /\ resolve = NoResolve /\ walk = NoWalk
    /\ run = NoRun
    /\ ops = 0

Next ==
    \/ ExtractorExecute
    \/ ExtractorAutoConnect
    \/ ExtractorTexture
    \/ ExtractorTransfer
    \/ DisneyExecute
    \/ DisneyTexture
    \/ DisneyFinish
    \/ ConnectExecute
    \/ ConnectExistingTexture
    \/ ConnectFinish
    \/ ConnectSelected

Spec == Init /\ [][Next]_vars

-----------------------------------------------------------------------------
(* A host in which some node types are not registered: nodes.new raises    *)
(* for them, and the operators go through their except branches.           *)

\* the node types for which the host raises are some of the Bump node, the
\* material output and the Math node (with it every other type the
\* operators try for the multiplication), whose creation the operators
\* guard with try / except; the files are those whose steps create these
\* nodes (bump, height, ao with color) and two with a step of their own
\* (metallic, roughness)
InitHost ==
    /\ cpc = "off" /\ centry = "" /\ cname = "" /\ cnode = "" /\ cforce = "AUTO"
    /\ cresult = NoMatch
    /\ \E tree \in InitialTrees : nodes = tree.nodes /\ links = tree.links
    /\ assets \in {list \in AssetLists :
                      \A k \in 1..Len(list) :
                          list[k] \in {"wall_ao.png", "wall_bump.png", "wall_color.png",
                                       "wall_height.png", "wall_metallic.png",
                                       "wall_roughness.png"}}
    /\ rejected \in SUBSET {"LuxCoreNodeTexBump", "LuxCoreNodeMatOutput",
                            "LuxCoreNodeTexMath"} \ {{}}
    /\ resolve = NoResolve /\ walk = NoWalk
    /\ run = NoRun
    /\ ops = 0

SpecHost == InitHost /\ [][Next]_vars

-----------------------------------------------------------------------------
(* The files in any order: self.files of the Disney setup follows the      *)
(* selection, the image nodes of a material follow their creation.         *)

\* the lists of at most n files of OrderPool, no file twice
RECURSIVE OrderedLists(_)
OrderedLists(n) ==
    IF n = 0 THEN {<<>>}
    ELSE OrderedLists(n - 1)
         \cup {Append(list, a) : list \in {l \in OrderedLists(n - 1) : Len(l) = n - 1},
                                 a \in OrderPool}

InitOrder ==
    /\ cpc = "off" /\ centry = "" /\ cname = "" /\ cnode = "" /\ cforce = "AUTO"
    /\ cresult = NoMatch
    /\ \E tree \in InitialTrees : nodes = tree.nodes /\ links = tree.links
    /\ assets \in {l \in OrderedLists(MaxAssets) :
                      \A i \in 1..Len(l), j \in 1..Len(l) : l[i] = l[j] => i = j}
    /\ rejected = {}
    /\ resolve = NoResolve /\ walk = NoWalk
    /\ run = NoRun
    /\ ops = 0

SpecOrder == InitOrder /\ [][Next]_vars

-----------------------------------------------------------------------------
(* A tree that holds an image node without an output named Color.  The     *)
(* operators take the node for a texture by its bl_idname (poll of         *)
(* connect-selected-texture, the texture lists of the others) and test     *)
(* for its outputs when they link it.                                       *)

ForeignTrees ==
    {[nodes |-> <<Node("LuxCoreNodeMatDisney", "Disney Material", "", ""),
                  Node("LuxCoreNodeTexImage", "Imagemap", "", "wall_ao.png")>>,
      links |-> {}],
     [nodes |-> <<Node("LuxCoreNodeMatDisney", "Disney Material", "", ""),
                  Node("LuxCoreNodeMatOutput", "Material Output", "", ""),
                  Node("LuxCoreNodeTexImage", "Imagemap", "", "wall_ao.png")>>,
      links |-> {Link(1, "Material", 2, "Material")}]}

InitForeign ==
    /\ cpc = "off" /\ centry = "" /\ cname = "" /\ cnode = "" /\ cforce = "AUTO"
    /\ cresult = NoMatch
    /\ \E tree \in ForeignTrees : nodes = tree.nodes /\ links = tree.links
    /\ assets \in {list \in AssetLists :
                      \A k \in 1..Len(list) :
                          list[k] \in {"wall_ao.png", "wall_color.png", "wall_orm.png"}}
    /\ rejected = {}
    /\ resolve = NoResolve /\ walk = NoWalk
    /\ run = NoRun
    /\ ops = 0

SpecForeign == InitForeign /\ [][Next]_vars

-----------------------------------------------------------------------------
(* The value transfer of the extractor: the input of the target node that  *)
(* receives the value extracted for a Disney input name.                   *)

MaxPorts == 2

\* get_alternative_socket_names
GetAlternativeSocketNames(socket_name) ==
    CASE socket_name = "Base Color" -> <<"BaseColor", "Diffuse Color", "Color", "Diffuse">>
      [] socket_name = "Metallic" -> <<"Metal", "Metallicness">>
      [] socket_name = "Roughness" -> <<"Rough", "Glossiness">>
      [] socket_name = "Specular" -> <<"Spec", "Specular Level", "Reflection">>
      [] socket_name = "Sheen" -> <<"Sheen Weight", "SheenAmount">>
      [] socket_name = "Sheen Tint" -> <<"SheenTint", "Sheen Color">>
      [] socket_name = "Clearcoat" -> <<"Coat", "Clear Coat", "ClearCoat", "Coat Weight">>
      [] socket_name = "Clearcoat Gloss" -> <<"Coat Gloss", "ClearCoatGloss", "Clearcoat Roughness">>
      [] socket_name = "Opacity" -> <<"Alpha", "Transparency">>
      [] OTHER -> <<>>

\* the partial match of apply_principled_values_to_disney: one of the
\* alternative names or the Disney input name, in lower case, is part of
\* the name of the input, or the other way round
PartialMatch(input_name, names) ==
    \E k \in 1..Len(names) :
        \/ Contains(Lower(input_name), Lower(names[k]))
        \/ Contains(Lower(names[k]), Lower(input_name))

\* apply_principled_values_to_disney, the search of target_socket: the
\* name of the input found in the inputs of the Disney node, "" for None
TargetSocket(inputs, disney_input) ==
    LET alt_names == GetAlternativeSocketNames(disney_input)
        alts == {k \in 1..Len(alt_names) : HasSocket(inputs, alt_names[k])}
        found == {i \in 1..Len(inputs) :
                     \/ Lower(inputs[i]) = Lower(disney_input)
                     \/ PartialMatch(inputs[i], alt_names \o <<disney_input>>)}
    IN  IF HasSocket(inputs, disney_input) THEN disney_input
        ELSE IF alts # {} THEN alt_names[Min(alts)]
        ELSE IF found # {} THEN inputs[Min(found)]
        ELSE ""

\* the Disney input names of value_mapping that are applied to inputs
DisneyInputNames ==
    {"Base Color", "Metallic", "Roughness", "Specular", "Sheen", "Sheen Tint", "Clearcoat",
     "Clearcoat Gloss", "Opacity"}

\* names of inputs that a Disney node type may have
PortPool ==
    {"Specular", "specular", "Specular Tint", "Spec", "Base Color", "base color", "Color",
     "Tint"}

\* the inputs of a Disney node: at most MaxPorts names, no name twice
RECURSIVE PortLists(_)
PortLists(n) ==
    IF n = 0 THEN {<<>>}
    ELSE PortLists(n - 1)
         \cup {Append(list, p) : list \in {l \in PortLists(n - 1) : Len(l) = n - 1},
                                 p \in PortPool}

InitTransfer ==
    /\ cpc = "off" /\ centry = "" /\ cname = "" /\ cnode = "" /\ cforce = "AUTO"
    /\ cresult = NoMatch
    /\ nodes = <<>> /\ links = {} /\ assets = <<>> /\ rejected = {} /\ run = NoRun
    /\ ops = 0 /\ walk = NoWalk
    /\ \E inputs \in {l \in PortLists(MaxPorts) :
                         \A i \in 1..Len(l), j \in 1..Len(l) : l[i] = l[j] => i = j},
          disney_input \in DisneyInputNames :
           resolve = [pc |-> "input", inputs |-> inputs, name |-> disney_input, socket |-> ""]

\* the target socket is looked up for one Disney input name
ResolveTargetSocket ==
    /\ resolve.pc = "input"
    /\ resolve' = [resolve EXCEPT !.pc = "done",
                                  !.socket = TargetSocket(resolve.inputs, resolve.name)]
    /\ UNCHANGED <<cvars, nodes, links, assets, rejected, walk, run, ops>>

SpecTransfer == InitTransfer /\ [][ResolveTargetSocket]_vars

-----------------------------------------------------------------------------
(* traverse_to_material_output: is the material output reachable from a    *)
(* node of the Principled material's tree.  The tree is that of Blender's  *)
(* own shader nodes, apart from the LuxCore tree above: walk.types[n] is   *)
(* the type of node n and what its group holds, walk.links the pairs       *)
(* <<from, to>> of the links from an output of from to an input of to.     *)
(* The recursion is kept as a stack of calls: walk.stack holds, for every  *)
(* call that is inside its loop over the links, the node of the call and   *)
(* the links still to follow; walk.node is the node of the call that was   *)
(* just made.                                                               *)

MaxWalkNodes == 3

\* node.type and, for a group node, whether node.node_tree holds a node of
\* type OUTPUT_MATERIAL
WalkKinds ==
    {[type |-> "OUTPUT_MATERIAL", inner |-> FALSE], [type |-> "GROUP", inner |-> TRUE],
     [type |-> "GROUP", inner |-> FALSE], [type |-> "TEX_IMAGE", inner |-> FALSE]}

\* the test of the material output alone, group nodes passed over
EndsTraversalWithoutGroups(kind) == kind.type = "OUTPUT_MATERIAL"

\* the tests of the body that return True: the node is the material output,
\* or a group whose tree holds one
EndsTraversal(kind) ==
    \/ kind.type = "OUTPUT_MATERIAL"
    \/ kind.type = "GROUP" /\ kind.inner

\* return False of the call on top of the stack: its caller goes on with
\* its loop, the first call ends the traversal
ReturnFalse(w) ==
    IF w.stack = <<>> THEN [w EXCEPT !.pc = "done", !.result = FALSE, !.node = 0]
    ELSE [w EXCEPT !.pc = "loop", !.node = 0]

\* return True: every caller returns True in turn
ReturnTrue(w) == [w EXCEPT !.pc = "done", !.result = TRUE, !.node = 0, !.stack = <<>>]

\* the body of traverse_to_material_output(node, node_tree, visited) up to
\* its loop
TraverseCall ==
    /\ walk.pc = "call"
    /\ LET node == walk.node
           added == [walk EXCEPT !.visited = @ \cup {node}, !.visits[node] = @ + 1]
           entered(w) ==
               IF EndsTraversal(walk.types[node]) THEN ReturnTrue(w)
               ELSE [w EXCEPT !.pc = "loop", !.node = 0,
                              !.stack = Append(@, [node |-> node,
                                                   todo |-> {l \in walk.links : l[1] = node}])]
       IN  walk' = IF node \in walk.visited THEN ReturnFalse(walk) ELSE entered(added)
    /\ UNCHANGED <<cvars, nodes, links, assets, rejected, resolve, run, ops>>

\* the loop over the links of the outputs of the node: the call for the
\* next link, in the order of the host
TraverseLink ==
    /\ walk.pc = "loop"
    /\ \E link \in walk.stack[Len(walk.stack)].todo :
           walk' = [walk EXCEPT !.pc = "call", !.node = link[2],
                                !.stack[Len(walk.stack)].todo = @ \ {link}]
    /\ UNCHANGED <<cvars, nodes, links, assets, rejected, resolve, run, ops>>

\* the loop has no link left: return False
TraverseReturn ==
    /\ walk.pc = "loop"
    /\ walk.stack[Len(walk.stack)].todo = {}
    /\ walk' = ReturnFalse([walk EXCEPT !.stack = SubSeq(@, 1, Len(@) - 1)])
    /\ UNCHANGED <<cvars, nodes, links, assets, rejected, resolve, run, ops>>

\* a tree of MaxWalkNodes nodes of any types with any links, cycles and
\* links of a node to itself included, and the call on its first node
InitWalk ==
    /\ cpc = "off" /\ centry = "" /\ cname = "" /\ cnode = "" /\ cforce = "AUTO"
    /\ cresult = NoMatch
    /\ nodes = <<>> /\ links = {} /\ assets = <<>> /\ rejected = {} /\ run = NoRun
    /\ ops = 0 /\ resolve = NoResolve
    /\ \E types \in [1..MaxWalkNodes -> WalkKinds],
          edges \in SUBSET ((1..MaxWalkNodes) \X (1..MaxWalkNodes)) :
           walk = [pc |-> "call", types |-> types, links |-> edges, node |-> 1,
                   stack |-> <<>>, visited |-> {}, visits |-> [n \in 1..MaxWalkNodes |-> 0],
                   result |-> FALSE]

NextWalk == TraverseCall \/ TraverseLink \/ TraverseReturn

\* every call runs on: a call that was made executes its body, a loop goes
\* on to its next link or returns
SpecWalk == InitWalk /\ [][NextWalk]_vars /\ WF_vars(NextWalk)
-----------------------------------------------------------------------------
(* Classification of one name.  The names are those of at most MaxTokens  *)
(* tokens joined by one of the separators, with or without an extension,   *)
(* and a few names written out.                                            *)

MaxTokens == 3

Tokens == {"wall", "diffuse", "normal", "col", "emit"}

Separators == {"_", "-", "."}

Extensions == {"", ".png"}

OtherNames == {"base_color", "base_color.png", "Wall_Normal.PNG", "rough_wall.bmp"}

RECURSIVE Joined(_, _)
\* the names of exactly n tokens joined by the separator sep
Joined(n, sep) ==
    IF n <= 1 THEN Tokens
    ELSE {t \o sep \o r : t \in Tokens, r \in Joined(n - 1, sep)}

Names ==
    {s \o x : s \in UNION {Joined(n, sep) : n \in 1..MaxTokens, sep \in Separators},
              x \in Extensions} \cup OtherNames

InitClassify ==
    /\ cpc = "input"
    /\ cname \in Names
    /\ \/ centry = "disney" /\ cforce = "AUTO" /\ cnode = ""
       \/ centry = "connect" /\ cforce = "AUTO" /\ cnode \in ConnectNodeNames(cname)
       \/ centry = "extractor" /\ cforce = "AUTO" /\ cnode = ExtractorNodeName(cname)
    /\ cresult = NoMatch
    /\ nodes = <<>> /\ links = {} /\ assets = <<>> /\ rejected = {} /\ resolve = NoResolve /\ walk = NoWalk
    /\ run = NoRun /\ ops = 0

\* the Disney setup operator is invoked with a force_type
ClassifyDisney ==
    /\ cpc = "input" /\ centry = "disney"
    /\ LET match == DisneyMatch(cname)
       IN  \E force_type \in ForceTypes :
               /\ cforce' = force_type
               /\ cresult' = DisneyForce(match, force_type)
    /\ cpc' = "done"
    /\ UNCHANGED <<centry, cname, cnode>>
    /\ UNCHANGED gvars

ClassifyConnect ==
    /\ cpc = "input" /\ centry = "connect"
    /\ cresult' = ConnectClassify(cnode, cname)
    /\ cpc' = "done"
    /\ UNCHANGED <<centry, cname, cnode, cforce>>
    /\ UNCHANGED gvars

ClassifyExtractor ==
    /\ cpc = "input" /\ centry = "extractor"
    /\ cresult' = ExtractorClassify(cnode, cname)
    /\ cpc' = "done"
    /\ UNCHANGED <<centry, cname, cnode, cforce>>
    /\ UNCHANGED gvars

NextClassify == ClassifyDisney \/ ClassifyConnect \/ ClassifyExtractor

SpecClassify == InitClassify /\ [][NextClassify]_vars

-----------------------------------------------------------------------------
(* Properties of the classifiers                                           *)

\* the name as the classifiers strip it: lower case, without extension
Stripped(name) == SplitExtRoot(Lower(name))

\* the last separator-delimited segment of the stripped name
SuffixOf(name) == LastSegment(Stripped(name))

\* the types of the entries of a table that have the keyword
TypesWithKeyword(table, keyword) ==
    LET word == keyword
    IN  {table[e].type : e \in {x \in 1..Len(table) :
            \E k \in 1..Len(table[x].keywords) : table[x].keywords[k] = word}}

\* the type of the entry of highest priority among the entries es of a table
HighestPriorityType(table, es) ==
    LET best == CHOOSE p \in {table[e].priority : e \in es} :
                    \A q \in {table[e].priority : e \in es} : q <= p
    IN  table[CHOOSE e \in es : table[e].priority = best].type

\* C2: in the extractor's classifier, when a keyword of the table equals
\* the suffix of the name, the type returned is the type of an entry that
\* has a keyword equal to the suffix.
C2_SuffixEntryWins ==
    (cpc = "done" /\ centry = "extractor") =>
        LET owners == TypesWithKeyword(extractor_texture_mapping, SuffixOf(cname))
        IN  owners # {} => cresult.type \in owners

\* C3: every classifier returns normal, not color, for "diffuse_normal".
C3_DiffuseNormalIsNormal ==
    (cpc = "done" /\ cname = "diffuse_normal") => cresult.type = "normal"

\* a keyword flanked in the text by '_', '-', '.' or the ends of the text
FlankedMatch(keyword, text) ==
    \E i \in 1..(Len(text) - Len(keyword) + 1) :
        /\ SubSeq(text, i, i + Len(keyword) - 1) = keyword
        /\ (i = 1 \/ Char(text, i - 1) \in {"_", "-", "."})
        /\ (i + Len(keyword) - 1 = Len(text) \/ Char(text, i + Len(keyword)) \in {"_", "-", "."})

\* the table of the classifier that ran
TableOf(entry) ==
    IF entry = "disney" THEN disney_texture_mapping
    ELSE IF entry = "connect" THEN connect_texture_mapping
    ELSE extractor_texture_mapping

\* the entries of a table with a keyword flanked by separators in the text
FlankedEntries(table, text) ==
    {e \in 1..Len(table) :
        \E k \in 1..Len(table[e].keywords) : FlankedMatch(table[e].keywords[k], text)}

\* C4: in every classifier a keyword flanked by '_', '-', '.' or the ends
\* of the extension-stripped name is a boundary match, so such a name is
\* never classified by the substring fallback or left unmatched, and
\* "wall.normal" is classified normal by a boundary match.
C4_DotIsABoundary ==
    cpc = "done" =>
        /\ cresult.via \notin {"boundary", "suffix"}
              => FlankedEntries(TableOf(centry), Stripped(cname)) = {}
        /\ cname = "wall.normal"
              => cresult.type = "normal" /\ cresult.via \in {"boundary", "suffix"}

\* C5, as the claim states it: no classifier returns color for "col", and
\* every classifier returns color for "base_color".
C5_ColIsNotColor ==
    cpc = "done" =>
        /\ cname = "col" => cresult.type # "color"
        /\ cname = "base_color" => cresult.type = "color"

\* C5, amended: every classifier returns color for "col" as it does for
\* "base_color", with or without an extension: 'col' is a keyword of the
\* color entry of every table.
C5_ColAndBaseColorAreColor ==
    (cpc = "done" /\ cname \in {"col", "col.png", "base_color", "base_color.png"})
    => cresult.type = "color"

C5_Witness ==
    cpc = "done" /\ centry = "connect" /\ cname = "col" /\ cresult.type = "color"

\* the entries whose keywords match the name by the boundary pattern of the
\* classifier that ran, on the text that classifier searches
MatchingEntries ==
    IF centry = "disney" THEN DisneyBoundaryEntries(Stripped(cname))
    ELSE {e \in 1..Len(TableOf(centry)) :
            EntryMatches(TableOf(centry)[e], Lower(cnode) \o " " \o Lower(cname))}

AnyDisneyKeywordIn(name) == DisneySubstringEntries(Stripped(name)) # {}

\* C7: the Disney setup operator assigns the forced type only to a file no
\* keyword matches, by boundary or by substring; a file that a keyword
\* matches has the type it has under AUTO.
C7_ForceOnlyWhenUnmatched ==
    (cpc = "done" /\ centry = "disney") =>
        IF AnyDisneyKeywordIn(cname)
        THEN cresult.via \in {"boundary", "substring"}
                /\ cresult = DisneyMatch(cname)
        ELSE IF cforce = "AUTO" THEN cresult = NoMatch
        ELSE cresult = [type |-> force_map[cforce], via |-> "forced"]

\* a file matched as color keeps color although NORMAL is forced
C7_Witness ==
    /\ cpc = "done" /\ centry = "disney" /\ cforce = "NORMAL"
    /\ cname = "wall_diffuse.png" /\ cresult.type = "color"


-----------------------------------------------------------------------------
(* Properties of the node tree under Spec                                  *)

\* the texture nodes the run in progress, or the last run, created
CreatedTextureNodes == {n \in run.first..Len(nodes) : nodes[n].kind \in TextureKinds}

\* the links that end at the socket of the node
LinksInto(to, inp) == {l \in links : l.to = to /\ l.inp = inp}

\* a run of one of the operators has returned FINISHED
Finished(operators) ==
    run.op \in operators /\ run.pc = "done" /\ run.result = "FINISHED"

\* the types the last run gave to its textures
RunTypes == {run.textures[k].type : k \in 1..Len(run.textures)}

\* the split nodes the last run created
CreatedSplitNodes ==
    {n \in run.first..Len(nodes) : nodes[n].kind = "LuxCoreNodeTexSplitFloat3"}

C8_UnmatchedAssetBecomesUnassignedNode ==
    /\ Finished({"disney"}) =>
           \A a \in run.unrecognised :
               \E n \in CreatedTextureNodes :
                   /\ nodes[n].image = a
                   /\ \A l \in links : ~(l.from = n /\ l.to = run.material_node)
                   /\ Contains(Upper(nodes[n].label), "UNASSIGNED")
    /\ (Finished({"extractor"}) /\ run.auto_connect /\ run.material_node # 0) =>
           \A k \in 1..Len(run.textures) :
               run.textures[k].type = "unassigned" =>
                   \E n \in CreatedTextureNodes :
                       /\ nodes[n].image = run.textures[k].name
                       /\ \A l \in links : ~(l.from = n /\ l.to = run.material_node)
                       /\ Contains(Upper(nodes[n].label), "UNASSIGNED")

\* the types a combined type covers
CoveredBy(tex_type) ==
    IF tex_type = "orm" THEN {"metallic", "roughness", "ao"}
    ELSE IF tex_type = "ors" THEN {"specular", "roughness", "ao"}
    ELSE {}

\* C9: when a run of the Disney setup or an auto-connect run of the
\* extractor has returned and its textures include an ORM texture (an ORS
\* texture), the tree has no texture node, created by the run, for a
\* texture of the run classified metallic, roughness or ao (specular,
\* roughness or ao).
C9_NoNodeForCoveredAsset ==
    Finished({"disney", "extractor"}) =>
        \A k \in 1..Len(run.textures), j \in 1..Len(run.textures) :
            run.textures[j].type \in CoveredBy(run.textures[k].type) =>
                ~\E n \in CreatedTextureNodes : nodes[n].image = run.textures[j].name

\* C10: when an auto-connect run (Disney setup, extractor,
\* connect-existing-textures) over textures classified orm, metallic and
\* roughness has returned, the run has created exactly one split node, and
\* the links into Roughness and Metallic of the material node are those
\* from outputs G and B of that split node.
C10_SplitterFeedsRoughnessAndMetallic ==
    (/\ Finished({"disney", "extractor", "connect"})
     /\ run.op = "connect" \/ run.auto_connect
     /\ run.material_node # 0
     /\ {"orm", "metallic", "roughness"} \subseteq RunTypes) =>
        \E sp \in CreatedSplitNodes :
            /\ CreatedSplitNodes = {sp}
            /\ LinksInto(run.material_node, "Roughness") =
                   {Link(sp, "G", run.material_node, "Roughness")}
            /\ LinksInto(run.material_node, "Metallic") =
                   {Link(sp, "B", run.material_node, "Metallic")}

-----------------------------------------------------------------------------
(* The AO multiplication                                                   *)

\* the Math nodes the run in progress, or the last run, created
CreatedMathNodes == {n \in run.first..Len(nodes) : nodes[n].kind = "LuxCoreNodeTexMath"}

\* an auto-connect run has returned FINISHED with a material node
AutoConnectFinished ==
    /\ Finished({"disney", "extractor", "connect"})
    /\ run.op = "connect" \/ run.auto_connect
    /\ run.material_node # 0

\* the link is the AO channel of the run: the colour output of an AO
\* texture of the run, or channel R of a split node
IsOcclusionChannel(l) ==
    \/ /\ l.out = "R" /\ nodes[l.from].kind = "LuxCoreNodeTexSplitFloat3"
    \/ /\ l.out = "Color"
       /\ \E k \in 1..Len(run.textures) :
              run.textures[k].type = "ao" /\ run.textures[k].node = l.from

\* the Math node mx multiplies the colour source with an occlusion link and
\* is the only source of Base Color
MultipliesIntoBaseColor(mx, color_from, color_out, occlusion) ==
    /\ LinksInto(run.material_node, "Base Color") =
           {Link(mx, "Value", run.material_node, "Base Color")}
    /\ LinksInto(mx, "Value 1") = {Link(color_from, color_out, mx, "Value 1")}
    /\ LinksInto(mx, "Value 2") = {occlusion}
    /\ occlusion.to = mx /\ occlusion.inp = "Value 2"

\* C11, the auto-connect runs: after a run over a colour texture and an
\* occlusion texture the run has created exactly one Math node; the only
\* link into Base Color comes from it, its first input is fed by the colour
\* texture, its second by the occlusion channel.
C11_AutoConnectMultiplies ==
    (AutoConnectFinished /\ {"color", "ao"} \subseteq RunTypes) =>
        \E mx \in CreatedMathNodes :
            /\ CreatedMathNodes = {mx}
            /\ \E occlusion \in links :
                   /\ IsOcclusionChannel(occlusion)
                   /\ MultipliesIntoBaseColor(mx, run.color_node, "Color", occlusion)

\* C11, connect-selected-texture: a step of the operator with type
\* OCCLUSION on a tree whose Base Color has one link creates exactly one
\* Math node; afterwards the only link into Base Color comes from it, its
\* first input is fed by the former source of Base Color, its second by
\* the selected texture, and the former link is gone.
C11_SelectedOcclusionStep ==
    \A mat \in 1..Len(nodes), sel \in 1..Len(nodes) :
        (/\ run'.op = "selected" /\ run'.texture_type = "OCCLUSION"
         /\ ops' = ops + 1
         /\ run'.material_node = mat /\ run'.selected = sel
         /\ Cardinality(LinksInto(mat, "Base Color")) = 1) =>
            \E former \in LinksInto(mat, "Base Color"), mx \in {Len(nodes) + 1} :
                /\ run'.result = "FINISHED"
                /\ Len(nodes') = mx
                /\ nodes'[mx].kind = "LuxCoreNodeTexMath"
                /\ former \notin links'
                /\ MultipliesIntoBaseColor(mx, former.from, former.out,
                                           Link(sel, "Color", mx, "Value 2"))'

\* C11: exactly one multiply node for a colour and an occlusion texture,
\* Base Color fed by it alone, its inputs fed by the colour source and by
\* the occlusion channel, in the auto-connect runs and in
\* connect-selected-texture with type OCCLUSION.
C11_OneMultiplyFeedsBaseColor ==
    [][C11_AutoConnectMultiplies' /\ C11_SelectedOcclusionStep]_vars

\* C11, its case: connect-selected-texture with type OCCLUSION has put a
\* Math node between the former source of Base Color and Base Color
C11_Witness ==
    /\ Finished({"selected"}) /\ run.texture_type = "OCCLUSION"
    /\ \E mx \in CreatedMathNodes, l \in links :
           /\ l.to = mx /\ l.inp = "Value 1" /\ l.from # run.selected
           /\ MultipliesIntoBaseColor(mx, l.from, l.out,
                                      Link(run.selected, "Color", mx, "Value 2"))

\* the last run has an occlusion channel: a texture classified ao, or a
\* split node of a combined texture
HasOcclusionChannel == "ao" \in RunTypes \/ CreatedSplitNodes # {}

\* the nodes the last run created
CreatedNodes == run.first..Len(nodes)

\* C12: when an auto-connect run (Disney setup, extractor,
\* connect-existing-textures) that has an occlusion channel (a texture
\* classified ao, or channel R of a split node) and no texture classified
\* color has returned, the run has created no constant node as a white
\* source, and no link into Base Color of the material node comes from a
\* node of the run.
C12_NoWhiteSourceWithoutColor ==
    (AutoConnectFinished /\ HasOcclusionChannel /\ "color" \notin RunTypes) =>
        /\ \A n \in CreatedNodes : nodes[n].kind # "LuxCoreNodeTexConstantFloat3"
        /\ \A l \in LinksInto(run.material_node, "Base Color") : l.from \notin CreatedNodes

\* the split nodes a step adds to the tree
NewSplitNodes ==
    {n \in (Len(nodes) + 1)..Len(nodes') : nodes'[n].kind = "LuxCoreNodeTexSplitFloat3"}

\* the step that sets up combined textures leaves channel B of every split
\* node it creates on Metallic (ORM) or Specular (ORS) of the material
\* node, and channel G of a split node it creates on Roughness: of the one
\* it creates, or of the later one when it creates two
C13_SetupStep ==
    \A sp \in NewSplitNodes :
        /\ Link(sp, "B", run'.material_node,
                IF nodes'[sp].label = "Split ORM" THEN "Metallic" ELSE "Specular") \in links'
        /\ \E last \in NewSplitNodes :
               /\ \A other \in NewSplitNodes : other <= last
               /\ Link(last, "G", run'.material_node, "Roughness") \in links'

\* channel R of a split node is the source of links into the second input
\* of a Math node only
C13_ChannelR ==
    \A l \in links :
        (nodes[l.from].kind = "LuxCoreNodeTexSplitFloat3" /\ l.out = "R") =>
            nodes[l.to].kind = "LuxCoreNodeTexMath" /\ l.inp = "Value 2"

\* C13: every step that sets up a combined texture (in the extractor, the
\* Disney setup, connect-existing-textures and connect-selected-texture)
\* ends with output G of the split node on Roughness and output B on
\* Metallic for ORM, on Specular for ORS; and in every reachable state a
\* link from output R of a split node ends at the second input of a Math
\* node, never at the material node.
C13_SplitterChannels == [][C13_ChannelR' /\ C13_SetupStep]_vars

\* C13, its case: a run has created a split node for an ORM texture whose
\* outputs G and B feed Roughness and Metallic and whose output R is
\* multiplied into Base Color
C13_Witness ==
    /\ Finished({"disney", "extractor", "connect", "selected"})
    /\ \E sp \in CreatedSplitNodes, mx \in CreatedMathNodes :
        /\ nodes[sp].label = "Split ORM"
        /\ Link(sp, "G", run.material_node, "Roughness") \in links
        /\ Link(sp, "B", run.material_node, "Metallic") \in links
        /\ Link(sp, "R", mx, "Value 2") \in links
        /\ Link(mx, "Value", run.material_node, "Base Color") \in links

\* the node is a texture that the run of the step treats as a bump map:
\* classified bump by an auto-connect run, or selected with type BUMP
IsBumpTextureOfStep(n) ==
    \/ \E k \in 1..Len(run'.textures) :
           run'.textures[k].type = "bump" /\ run'.textures[k].node = n
    \/ run'.op = "selected" /\ run'.texture_type = "BUMP" /\ run'.selected = n

\* C14: no step of any operator creates a link that goes from a texture the
\* run treats as a bump map straight into an input of the material node;
\* this also when the host raises for the Bump node, where the texture
\* gets no link at all.
C14_BumpOnlyThroughBumpNode ==
    [][\A l \in links' \ links :
           l.to = run'.material_node => ~IsBumpTextureOfStep(l.from)]_vars

\* the texture nodes whose normal-map flag a step sets
NormalmapActivated ==
    {n \in 1..Len(nodes') :
        /\ nodes'[n].kind \in TextureKinds
        /\ nodes'[n].normalmap
        /\ n > Len(nodes) \/ ~nodes[n].normalmap}

\* C15: every step of any operator that sets the normal-map flag of a
\* texture node ends with a link from that texture into the Bump socket of
\* the material node: the flag is not set for a texture that has no such
\* link, whether the link was never created or is not created yet.
C15_NormalmapFlagOnlyWithEdge ==
    [][\A n \in NormalmapActivated :
           \E l \in links' :
               /\ l.from = n /\ l.to = run'.material_node
               /\ l.inp = BumpSocket(nodes'[run'.material_node].kind)]_vars

\* the step is the Height step of a run that connects: the texture at hand
\* in the loop of an auto-connect run is classified height, or
\* connect-selected-texture runs with type HEIGHT on a tree with a
\* material node
HeightStep ==
    \/ /\ run.pc = "textures"
       /\ run.op = "connect" \/ run.auto_connect
       /\ run.textures[run.i].type = "height"
    \/ /\ ops' = ops + 1 /\ run'.op = "selected" /\ run'.texture_type = "HEIGHT"
       /\ run'.material_node # 0

\* C16: every Height step, in each of the four operators, ends with a
\* material output in the tree (found, or created when there was none)
\* whose input Material is fed by output Material of the material node.
C16_HeightStepLinksMaterialToOutput ==
    [][HeightStep =>
           \E out \in 1..Len(nodes') :
               /\ nodes'[out].kind = "LuxCoreNodeMatOutput"
               /\ Link(run'.material_node, "Material", out, "Material") \in links']_vars

\* the host raises for the material output and the tree has none
NoMaterialOutput ==
    /\ "LuxCoreNodeMatOutput" \in rejected
    /\ \A n \in 1..Len(nodes) : nodes[n].kind # "LuxCoreNodeMatOutput"

\* the links of the displacement chain
DisplacementLinks ==
    {l \in links : \/ nodes[l.from].kind = "LuxCoreNodeShapeHeightDisplacement"
                   \/ nodes[l.to].kind = "LuxCoreNodeShapeHeightDisplacement"}

\* the Height step of an auto-connect run without a material output does
\* not count the texture and creates no link of a displacement chain
C17_HeightStepFails ==
    (NoMaterialOutput /\ HeightStep) =>
        /\ run'.count = run.count
        /\ DisplacementLinks' = {}

\* when such a run has returned, every texture it classified roughness or
\* metallic feeds the socket of its type
C17_OthersConnected ==
    (AutoConnectFinished /\ NoMaterialOutput /\ "height" \in RunTypes) =>
        \A k \in 1..Len(run.textures) :
            /\ run.textures[k].type = "roughness" =>
                   Link(run.textures[k].node, "Color", run.material_node, "Roughness") \in links
            /\ run.textures[k].type = "metallic" =>
                   Link(run.textures[k].node, "Color", run.material_node, "Metallic") \in links

\* C17: in an auto-connect run on a host that raises for the material
\* output, in a tree that has none, the Height step fails: it leaves the
\* connected count as it was and creates no link of a displacement chain;
\* and when the run has returned every texture classified roughness or
\* metallic has its link into Roughness or Metallic.
C17_OutputRejectedHeightFails == [][C17_HeightStepFails /\ C17_OthersConnected']_vars

\* the tree has no node that an operator takes as the target material node
NoMaterialNode ==
    \A n \in 1..Len(nodes) : nodes[n].kind \notin ExtMaterialKinds \cup DisneyKinds

\* the step starts a run that needs the material node: the Disney setup,
\* connect-selected-texture, the extractor with auto_connect on textures
LooksForMaterialNode ==
    /\ ops' = ops + 1
    /\ \/ run'.op \in {"disney", "selected"}
       \/ run'.op = "extractor" /\ run'.auto_connect /\ assets # <<>>

\* C18: a run that needs the target material node, started on a tree that
\* has none, leaves the nodes and the links of the tree exactly as they
\* were before the call.
C18_NoMaterialNodeNoChange ==
    [][(NoMaterialNode /\ LooksForMaterialNode) => (nodes' = nodes /\ links' = links)]_vars

\* the input that the strategies give when each is tried on all the inputs
\* before the next one: the exact name, the first alternative name that is
\* an input, the first input equal without regard to case, the first input
\* with a partial match
ByEarliestStrategy(inputs, disney_input) ==
    LET alt_names == GetAlternativeSocketNames(disney_input)
        alts == {k \in 1..Len(alt_names) : HasSocket(inputs, alt_names[k])}
        equal == {i \in 1..Len(inputs) : Lower(inputs[i]) = Lower(disney_input)}
        partial == {i \in 1..Len(inputs) :
                       PartialMatch(inputs[i], alt_names \o <<disney_input>>)}
    IN  IF HasSocket(inputs, disney_input) THEN disney_input
        ELSE IF alts # {} THEN alt_names[Min(alts)]
        ELSE IF equal # {} THEN inputs[Min(equal)]
        ELSE IF partial # {} THEN inputs[Min(partial)]
        ELSE ""

\* C19: the input that the value transfer finds for a Disney input name is
\* the one of the earliest strategy, in the order exact name, alternative
\* name, equal without regard to case, partial match, that finds an input
\* of the node; an input that matches only in part is not returned while
\* another input is equal to the name without regard to case.
C19_EarliestStrategyWins ==
    resolve.pc = "done" => resolve.socket = ByEarliestStrategy(resolve.inputs, resolve.name)

\* C20: the value transfer of the extractor leaves every input of the
\* Disney node that has an incoming link before the transfer with that
\* same link after it; this for the inputs of all the entries of the
\* mapping table, the input Emission of the entry Emission Color included.
C20_TransferKeepsLinkedInputs ==
    [][(run.op = "extractor" /\ run.pc = "transfer") =>
           \A l \in links :
               nodes[l.to].kind \in DisneyKinds => LinksInto(l.to, l.inp)' = {l}]_vars

\* every node of the tree is a node of the tree after the step, in its
\* place, with its type, its name and its image
NodesKept ==
    /\ Len(nodes') >= Len(nodes)
    /\ \A n \in 1..Len(nodes) :
           /\ nodes'[n].kind = nodes[n].kind
           /\ nodes'[n].name = nodes[n].name
           /\ nodes'[n].image = nodes[n].image

\* C21: over any sequence of runs of the operators no step removes a node
\* of the tree, whether the run it belongs to succeeds or is cancelled:
\* the nodes only grow in number, and what a step removes is links.
C21_NodesOnlyGrow == [][NodesKept]_vars

\* C21, its case: connect-selected-texture with type OCCLUSION has removed
\* the link that went from a node of the tree into Base Color (that node
\* now feeds the Math node the run created), and the node is still there
C21_Witness ==
    /\ Finished({"selected"}) /\ run.texture_type = "OCCLUSION"
    /\ \E mx \in CreatedMathNodes, former \in 1..Len(nodes) :
           /\ former < run.first
           /\ Link(former, ColorOutput(nodes[former].kind), mx, "Value 1") \in links
           /\ Link(mx, "Value", run.material_node, "Base Color") \in links
           /\ LinksInto(run.material_node, "Base Color") =
                  {Link(mx, "Value", run.material_node, "Base Color")}

-----------------------------------------------------------------------------
(* A base colour, an ORM and a normal map, in any order                    *)

\* the image names of the textures of the run
RunNames == {run.textures[k].name : k \in 1..Len(run.textures)}

\* the texture node the run holds for the image
NodeOfImage(image) ==
    CHOOSE n \in 0..Len(nodes) :
        \/ \E k \in 1..Len(run.textures) :
               run.textures[k].name = image /\ run.textures[k].node = n
        \/ n = 0 /\ image \notin RunNames

\* an auto-connect run of the extractor or of connect-existing-textures
\* over exactly the three images has returned, on a material node that has
\* the four sockets
C22_RunOverTheThree ==
    /\ AutoConnectFinished
    /\ run.op \in {"extractor", "connect"}
    /\ Len(run.textures) = 3
    /\ RunNames = {"wall_basecolor.jpg", "wall_orm.png", "wall_normal.png"}
    /\ \A socket \in {"Base Color", "Roughness", "Metallic", "Bump"} :
           HasSocket(NodeInputs(nodes[run.material_node].kind), socket)

\* the links the run has to end with
C22_Wiring ==
    \E sp \in CreatedSplitNodes, mx \in CreatedMathNodes :
        /\ LinksInto(sp, "Color") = {Link(NodeOfImage("wall_orm.png"), "Color", sp, "Color")}
        /\ LinksInto(run.material_node, "Roughness") =
               {Link(sp, "G", run.material_node, "Roughness")}
        /\ LinksInto(run.material_node, "Metallic") =
               {Link(sp, "B", run.material_node, "Metallic")}
        /\ MultipliesIntoBaseColor(mx, NodeOfImage("wall_basecolor.jpg"), "Color",
                                   Link(sp, "R", mx, "Value 2"))
        /\ LinksInto(run.material_node, "Bump") =
               {Link(NodeOfImage("wall_normal.png"), "Color", run.material_node, "Bump")}

\* C22: when an auto-connect run of the extractor or of
\* connect-existing-textures over the images wall_basecolor.jpg,
\* wall_orm.png and wall_normal.png, in any order, has returned on a
\* material node with the sockets Base Color, Roughness, Metallic and Bump,
\* Roughness is fed by output G and Metallic by output B of the split node
\* of the ORM texture, Base Color by a Math node whose inputs are the colour
\* texture and output R of the split node, Bump by the normal map, and the
\* connected count of the run is 3.
C22_ThreeAssetsAnyOrder ==
    C22_RunOverTheThree => (C22_Wiring /\ run.count = 3)

\* C22, its case: the extractor was given the normal map first and the ORM
\* texture last, and its run ended with the links and the count of 3
C22_Witness ==
    /\ run.op = "extractor"
    /\ assets = <<"wall_normal.png", "wall_basecolor.jpg", "wall_orm.png">>
    /\ C22_RunOverTheThree
    /\ C22_Wiring
    /\ run.count = 3

-----------------------------------------------------------------------------
(* Coverage and the order of the files                                     *)

\* the texture at position j of the run was skipped: no link goes from a
\* node of it to the material node
Skipped(j) ==
    \A l \in links : ~(/\ run.textures[j].node # 0
                       /\ l.from = run.textures[j].node
                       /\ l.to = run.material_node)

\* C23: when an auto-connect run (Disney setup, extractor,
\* connect-existing-textures) has returned and its textures include an ORM
\* or ORS texture, every texture of the run whose type the combined type
\* covers was skipped, whatever the positions of the two in the input: no
\* link goes from its node to the material node.
C23_CoverageAnyOrder ==
    AutoConnectFinished =>
        \A k \in 1..Len(run.textures), j \in 1..Len(run.textures) :
            run.textures[j].type \in CoveredBy(run.textures[k].type) => Skipped(j)

-----------------------------------------------------------------------------
(* The traversal to the material output                                    *)

RECURSIVE ReachableFrom(_, _)
\* the nodes reached from the nodes of the set by following links, in at
\* most n rounds
ReachableFrom(set, n) ==
    IF n = 0 THEN set
    ELSE ReachableFrom(set \cup {l[2] : l \in {e \in walk.links : e[1] \in set}}, n - 1)

\* the node is a material output, or a group node that holds one
HoldsOutput(n) ==
    walk.types[n] \in {[type |-> "OUTPUT_MATERIAL", inner |-> FALSE],
                       [type |-> "GROUP", inner |-> TRUE]}

\* a material output, or a group that holds one, is reachable from the
\* start node
OutputReachable == \E n \in ReachableFrom({1}, MaxWalkNodes) : HoldsOutput(n)

\* no node was added to visited more than once
C24_VisitedOnce == \A n \in 1..MaxWalkNodes : walk.visits[n] <= 1

\* the traversal has returned what reachability says
C24_Result == walk.pc = "done" => (walk.result <=> OutputReachable)

\* C24: on every tree of MaxWalkNodes nodes, cycles included,
\* traverse_to_material_output returns, executes its body for each node at
\* most once, and returns True exactly when a node of type OUTPUT_MATERIAL,
\* or a group node whose tree holds one, is reachable from the start node
\* along links from outputs.
C24_TraversalTerminatesAndDecides ==
    /\ [](C24_VisitedOnce /\ C24_Result)
    /\ <>(walk.pc = "done")

\* C24, its case: the start node lies on a cycle, the traversal came back
\* to it, found it visited, and returned True for a material output behind
\* the cycle
C24_Witness ==
    /\ walk.pc = "done" /\ walk.result
    /\ <<1, 2>> \in walk.links /\ <<2, 1>> \in walk.links /\ <<2, 3>> \in walk.links
    /\ walk.types[3].type = "OUTPUT_MATERIAL"
    /\ ~HoldsOutput(1) /\ ~HoldsOutput(2)
    /\ walk.visited = {1, 2, 3}

-----------------------------------------------------------------------------
(* The connected count and the links of a step                             *)

RECURSIVE FedBy(_, _, _)
\* the nodes that the nodes of the set feed through the links, in at most n
\* rounds
FedBy(edges, set, n) ==
    IF n = 0 THEN set
    ELSE FedBy(edges, set \cup {l.to : l \in {e \in edges : e.from \in set}}, n - 1)

\* a step of the second pass of the extractor or of
\* connect-existing-textures, the step of the texture at run.i, raised the
\* connected count
C25_StepCounted ==
    /\ run.op \in {"extractor", "connect"} /\ run.pc = "textures"
    /\ run'.count > run.count

\* after the step a link ends at the material node or at the material
\* output, and the texture of the step feeds it
C25_EdgeOfStep ==
    \E edges \in {links'}, size \in {Len(nodes')} :
        \E l \in edges :
            /\ l.to \in {run.material_node, run.material_output} \ {0}
            /\ l.to \in FedBy(edges, {run.textures[run.i].node}, size)

\* C25: a step of the second pass of an auto-connect run (extractor,
\* connect-existing-textures) raises the connected count only when it ends
\* with a link at an input of the material node or of the material output
\* that the texture of the step feeds; a step that creates no such link
\* (a Height step without a material output) leaves the count as it was.
C25_CountOnlyWithEdge == [][C25_StepCounted => C25_EdgeOfStep]_vars

-----------------------------------------------------------------------------
(* The textures that were counted keep their way to the material           *)

\* the types that the second pass of the extractor and of
\* connect-existing-textures never passes over: a texture of such a type is
\* linked, and counted, in the step of its own
TypesOfOwnStep == {"normal", "bump", "emission", "height", "opacity"}

\* the node feeds the material node or the material output of the run
\* through the links
FeedsMaterial(edges, size, node) ==
    \E to \in {run.material_node, run.material_output} \ {0} :
        to \in FedBy(edges, {node}, size)

\* a step of the second pass, after which the run goes on or returns
C26_Step ==
    /\ run.op \in {"extractor", "connect"} /\ run.pc = "textures"
    /\ run'.op = run.op

\* the textures that had their step earlier in the run and feed the
\* material feed it after the step as well
C26_EarlierKeepTheirPath ==
    \E edges \in {links'}, size \in {Len(nodes')} :
        \A j \in 1..(run.i - 1) :
            (/\ run.textures[j].type \in TypesOfOwnStep
             /\ FeedsMaterial(links, Len(nodes), run.textures[j].node)) =>
                FeedsMaterial(edges, size, run.textures[j].node)

\* C26: no step of the second pass of an auto-connect run (extractor,
\* connect-existing-textures) takes away the path to the material node or
\* the material output from a texture that an earlier step of the run
\* connected and counted (a normal map and a bump map that both end at
\* Bump), so that every counted texture has its path when the run returns.
C26_CountedTexturesKeepPath == [][C26_Step => C26_EarlierKeepTheirPath]_vars

-----------------------------------------------------------------------------
(* connect-selected-texture with type OCCLUSION and the link of Base Color *)

\* C27: when connect-selected-texture runs with type OCCLUSION on a tree
\* whose Base Color has an incoming link, Base Color has exactly one
\* incoming link after the call; when the call does not return FINISHED
\* (the selected texture has no output Color), the link that fed Base Color
\* is still in place.
C27_OcclusionKeepsBaseColorFed ==
    [][\A mat \in 1..Len(nodes) :
           (/\ run'.op = "selected" /\ run'.texture_type = "OCCLUSION"
            /\ ops' = ops + 1
            /\ run'.material_node = mat
            /\ LinksInto(mat, "Base Color") # {}) =>
               /\ Cardinality(LinksInto(mat, "Base Color")') = 1
               /\ run'.result # "FINISHED" =>
                      LinksInto(mat, "Base Color")' = LinksInto(mat, "Base Color")]_vars

-----------------------------------------------------------------------------
(* One role for each texture                                               *)

\* the types of one channel: every type but color, the combined types and
\* unassigned
SingleChannelTypes ==
    {"normal", "bump", "roughness", "metallic", "specular", "ao", "height", "opacity",
     "emission"}

\* the inputs of the material node that the node feeds, directly or
\* through other nodes
SocketsFedBy(node) ==
    {l.inp : l \in {e \in links : /\ e.to = run.material_node
                                  /\ e.from \in FedBy(links, {node}, Len(nodes))}}

\* C28: when an auto-connect run of the extractor has returned, a texture
\* of the run classified with a type of one channel feeds at most one input
\* of the material node, and it is not the first input of a Math node that
\* feeds Base Color.
C28_SingleChannelFeedsOnePort ==
    (Finished({"extractor"}) /\ run.auto_connect /\ run.material_node # 0) =>
        \A k \in 1..Len(run.textures) :
            run.textures[k].type \in SingleChannelTypes =>
                /\ Cardinality(SocketsFedBy(run.textures[k].node)) <= 1
                /\ ~\E mx \in CreatedMathNodes :
                       /\ Link(mx, "Value", run.material_node, "Base Color") \in links
                       /\ \E l \in LinksInto(mx, "Value 1") : l.from = run.textures[k].node

-----------------------------------------------------------------------------
(* An ORM and an ORS texture in one run                                    *)

\* C29: when an auto-connect run (Disney setup, extractor,
\* connect-existing-textures) over an ORM and an ORS texture has returned,
\* the link into Roughness and the occlusion channel of the Math node that
\* feeds Base Color come from the same split node.
C29_OneCombinedAssetWins ==
    (AutoConnectFinished /\ {"orm", "ors"} \subseteq RunTypes) =>
        \A mx \in CreatedMathNodes :
            Link(mx, "Value", run.material_node, "Base Color") \in links =>
                \A occlusion \in LinksInto(mx, "Value 2"),
                   roughness \in LinksInto(run.material_node, "Roughness") :
                    (/\ nodes[occlusion.from].kind = "LuxCoreNodeTexSplitFloat3"
                     /\ nodes[roughness.from].kind = "LuxCoreNodeTexSplitFloat3") =>
                        occlusion.from = roughness.from

-----------------------------------------------------------------------------
(* Base Color after an auto-connect run                                    *)

\* the nodes of the colour textures of the run
ColorTextureNodes ==
    {run.textures[k].node : k \in {j \in 1..Len(run.textures) : run.textures[j].type = "color"}}
        \ {0}

\* C30: when an auto-connect run (Disney setup, extractor,
\* connect-existing-textures) with a colour texture has returned on a
\* material node that has the input Base Color, exactly one link ends at
\* Base Color, and it comes from a colour texture of the run or from a Math
\* node; so too when the run has an occlusion channel and the host raises
\* for every type of Math node: then the colour texture is linked directly.
C30_BaseColorFedOnce ==
    (/\ AutoConnectFinished
     /\ ColorTextureNodes # {}
     /\ HasSocket(NodeInputs(nodes[run.material_node].kind), "Base Color")) =>
        \E l \in links :
            /\ LinksInto(run.material_node, "Base Color") = {l}
            /\ \/ l.from \in ColorTextureNodes
               \/ nodes[l.from].kind = "LuxCoreNodeTexMath"
=============================================================================
